---- MODULE Spec2Model ----
(***************************************************************************)
(* A model of the multi-source ingestion pipeline:                         *)
(*   app/ingest/scrapers/cache.py      the on-disk content cache            *)
(*   app/ingest/scrapers/*.py          the per-source scrapers              *)
(*   app/ingest/youtube.py             the legacy YouTube ingestion         *)
(*   app/ingest/runner.py              run_all                              *)
(*                                                                         *)
(* The specifications share the variables:                                 *)
(*   SpecCache  calls of the cache API in any order, with the USE_CACHE    *)
(*              environment variable changing between calls                *)
(*   Spec       one call of a scraper's fetch operation, statement by      *)
(*              statement, with its cache calls and its waits              *)
(*   SpecRunAll one call of run_all, in the same steps                     *)
(*   SpecParse  calls of the transcript parsers and of the date parser     *)
(*   SpecFetch  the cached payload fetches of the scrapers, one after the  *)
(*              other or overlapping                                       *)
(*   SpecRace   get_cached and set_cached calls on one key, interleaved    *)
(*   SpecBrowser     the browser sessions of the page fetches, statement   *)
(*                   by statement                                          *)
(*   SpecTranscript  calls of YouTubeScraper.get_transcript                *)
(*   SpecPoll   OpenAINewsScraper.fetch_articles called again and again    *)
(*              while articles appear on the page                          *)
(*   SpecWaits  the network interactions of run_all and their timeouts;    *)
(*              FairWaits adds the fairness of the program and the timers  *)
(*                                                                         *)
(* Text is a sequence of characters.  An optional value (Python's None or  *)
(* a value) is a sequence of length 0 or 1.                                *)
(***************************************************************************)
EXTENDS Integers, Sequences, FiniteSets, TLC

VARIABLES
    environ,    \* os.environ.get("USE_CACHE"): <<>> when unset, else <<value>>
    files,      \* the regular files of the .cache directory: name -> bytes
    last,       \* the latest cache call: operation, arguments and return value
    clock,      \* datetime.now(timezone.utc), in seconds since Epoch
    op,         \* the call being executed: function, arguments, time of the call
    pc,         \* where the call is: "fetch", "wait", "parse", "loop",
                \* "enrich", "extract", "download", "convert" or "done"
    j,          \* run_all: which source is being fetched (1..3); else 1
    idx,        \* which channel / feed of the source is being fetched
    cutoff_time,\* the local cutoff_time of the latest listing fetch
    entry,      \* the loop variable of "for entry in feed.entries"
    listing,    \* videos / articles: the list the running listing fetch builds
    all_items,  \* all_videos / all_articles: the list the source builds
    k,          \* the position of the enrichment loop in its list
    results,    \* run_all: the lists of the sources that have returned
    ret,        \* the outcome of the call once it is done
    drawn,      \* how many feed entries the call has read
    log,        \* per source, what each listing fetch returned or "raised"
                \* (SpecPoll: the articles that appeared on the page)
    call,       \* the call being made: function and argument (SpecBrowser,
                \* SpecWaits: where it is)
    result,     \* what the calls have come to, in order (SpecFetch: the
                \* fetches and clear_cache calls so far; SpecWaits: how the
                \* latest network interaction ended)
    procs       \* the cache calls in progress in concurrent processes
                \* (SpecFetch: the fetches that wait for the network;
                \* SpecBrowser: the browser sessions)

cacheVars == <<environ, files, last>>
runVars == <<clock, op, pc, j, idx, cutoff_time, entry, listing, all_items, k,
             results, ret, drawn, log>>
vars == <<environ, files, last, clock, op, pc, j, idx, cutoff_time, entry,
          listing, all_items, k, results, ret, drawn, log, call, result,
          procs>>
auxVars == <<call, result, procs>>

None == <<>>
Some(x) == <<x>>

\* "name = value" of the code: the value is computed once and named in what
\* follows
bind(value, rest(_)) == rest(value)
\* a statement after a call that may have raised: the exception leaves the
\* function, a returned value is named in what follows
and_then(outcome, rest(_)) ==
    IF outcome.raised THEN outcome ELSE rest(outcome.value)

\* what a call of a function comes to: the value it returns, or an exception
ReturnedValue(value) == [raised |-> FALSE, value |-> value]
RaisedError == [raised |-> TRUE, value |-> None]
\* the exception a call raises
Raises(exception) == [raised |-> TRUE, value |-> None, exception |-> exception]

-----------------------------------------------------------------------------
(* Characters and their bytes: str.encode('utf-8'), bytes.decode('utf-8')   *)
(*                                                                         *)
(* An ASCII character is written as itself or, a control character, by its *)
(* name; a character beyond ASCII by its code point, "U+" and four to six  *)
(* hexadecimal digits.  A byte below 0x80 is written as the character it   *)
(* encodes, a byte from 0x80 as "0x" and its two hexadecimal digits.       *)

CR == "CR"
LF == "LF"
NEL == "NEL"    \* "\x85"
NBSP == "NBSP"  \* "\xa0"
GRAVE == "GRAVE"    \* the grave accent, "\x60"

HexDigits ==
    <<"0", "1", "2", "3", "4", "5", "6", "7", "8", "9", "A", "B", "C", "D",
      "E", "F">>
hex_value(digit) == (CHOOSE i \in 1..16 : HexDigits[i] = digit) - 1
\* int(digits, 16), after the number n the digits before gave
RECURSIVE hex_number(_, _)
hex_number(digits, n) ==
    IF Len(digits) = 0 THEN n
    ELSE hex_number(SubSeq(digits, 2, Len(digits)),
                    n * 16 + hex_value(SubSeq(digits, 1, 1)))
\* the digits of n in base 16, `width` of them at least
RECURSIVE hex_digits(_, _)
hex_digits(n, width) ==
    IF n < 16 /\ width <= 1 THEN HexDigits[n + 1]
    ELSE hex_digits(n \div 16, width - 1) \o HexDigits[(n % 16) + 1]

is_code_point(c) == Len(c) >= 6 /\ SubSeq(c, 1, 2) = "U+"
\* ord(c) of a character beyond ASCII
code_point(c) ==
    IF c = NEL THEN 133
    ELSE IF c = NBSP THEN 160
    ELSE hex_number(SubSeq(c, 3, Len(c)), 0)
\* chr(n), n from 0x80
character(n) ==
    IF n = 133 THEN NEL
    ELSE IF n = 160 THEN NBSP
    ELSE "U+" \o hex_digits(n, 4)
is_beyond_ascii(c) == c \in {NEL, NBSP} \/ is_code_point(c)

high_byte(n) == "0x" \o hex_digits(n, 2)
is_high_byte(byte) == Len(byte) = 4 /\ SubSeq(byte, 1, 2) = "0x"
byte_value(byte) == hex_number(SubSeq(byte, 3, 4), 0)

\* c.encode('utf-8') of one character (no lone surrogate: no text the
\* scrapers hold has one)
utf8_of_code_point(n) ==
    IF n < 2048
    THEN <<high_byte(192 + (n \div 64)), high_byte(128 + (n % 64))>>
    ELSE IF n < 65536
    THEN <<high_byte(224 + (n \div 4096)), high_byte(128 + ((n \div 64) % 64)),
           high_byte(128 + (n % 64))>>
    ELSE <<high_byte(240 + (n \div 262144)),
           high_byte(128 + ((n \div 4096) % 64)),
           high_byte(128 + ((n \div 64) % 64)), high_byte(128 + (n % 64))>>
utf8_encode_char(c) ==
    IF is_beyond_ascii(c) THEN utf8_of_code_point(code_point(c)) ELSE <<c>>

\* how many bytes the sequence a first byte begins has; 0 for a byte that
\* begins none
utf8_sequence_length(first) ==
    IF first >= 194 /\ first <= 223 THEN 2
    ELSE IF first >= 224 /\ first <= 239 THEN 3
    ELSE IF first >= 240 /\ first <= 244 THEN 4
    ELSE 0
is_continuation(byte) ==
    is_high_byte(byte) /\ byte_value(byte) >= 128 /\ byte_value(byte) <= 191
\* the code point the bits of the bytes of one sequence give
RECURSIVE utf8_bits(_, _)
utf8_bits(continuations, n) ==
    IF continuations = <<>> THEN n
    ELSE utf8_bits(Tail(continuations),
                   n * 64 + (byte_value(Head(continuations)) - 128))
utf8_first_bits(first, length) ==
    first - (IF length = 2 THEN 192 ELSE IF length = 3 THEN 224 ELSE 240)
\* the least code point a sequence of the length may encode
utf8_least(length) ==
    IF length = 2 THEN 128 ELSE IF length = 3 THEN 2048 ELSE 65536
is_utf8_code_point(n, length) ==
    /\ n >= utf8_least(length)
    /\ n <= 1114111
    /\ ~ (n >= 55296 /\ n <= 57343)

\* bytes.decode('utf-8'), errors='strict': the text, or UnicodeDecodeError
RECURSIVE utf8_decode(_)
utf8_decode(bytes) ==
    IF bytes = <<>> THEN ReturnedValue(<<>>)
    ELSE IF ~ is_high_byte(Head(bytes))
    THEN and_then(utf8_decode(Tail(bytes)),
                  LAMBDA text : ReturnedValue(<<Head(bytes)>> \o text))
    ELSE bind(utf8_sequence_length(byte_value(Head(bytes))), LAMBDA length :
         IF \/ length = 0
            \/ Len(bytes) < length
            \/ \E i \in 2..length : ~ is_continuation(bytes[i])
         THEN Raises("UnicodeDecodeError")
         ELSE bind(utf8_bits(SubSeq(bytes, 2, length),
                             utf8_first_bits(byte_value(Head(bytes)), length)),
                   LAMBDA n :
              IF ~ is_utf8_code_point(n, length)
              THEN Raises("UnicodeDecodeError")
              ELSE and_then(utf8_decode(SubSeq(bytes, length + 1, Len(bytes))),
                            LAMBDA text :
                                ReturnedValue(<<character(n)>> \o text))))

-----------------------------------------------------------------------------
(* cache.py                                                                *)

\* os.linesep of the platform the cache runs on (POSIX)
linesep == <<LF>>

\* Path.write_text(content, encoding='utf-8'): text mode with newline=None,
\* every "\n" is written as os.linesep, every character as its bytes
RECURSIVE write_text(_)
write_text(content) ==
    IF content = <<>> THEN <<>>
    ELSE (IF Head(content) = LF THEN linesep
          ELSE utf8_encode_char(Head(content)))
         \o write_text(Tail(content))

\* the universal newlines of text mode with newline=None: "\r\n" and a lone
\* "\r" are both read as "\n"
RECURSIVE universal_newlines(_)
universal_newlines(text) ==
    IF text = <<>> THEN <<>>
    ELSE IF Head(text) = CR
         THEN <<LF>> \o universal_newlines(IF Len(text) > 1 /\ text[2] = LF
                                           THEN Tail(Tail(text))
                                           ELSE Tail(text))
         ELSE <<Head(text)>> \o universal_newlines(Tail(text))

\* Path.read_text(encoding='utf-8') of a file that holds the bytes: the text,
\* or UnicodeDecodeError
read_bytes_as_text(bytes) ==
    and_then(utf8_decode(bytes),
             LAMBDA text : ReturnedValue(universal_newlines(text)))
\* the text read_text returns where the bytes decode, as those of a file that
\* whole write_text calls wrote do
read_text(bytes) == read_bytes_as_text(bytes).value

\* two URLs hashlib.md5 gives one digest, faad49866e9498fc1719f5289e7a0269
CollidingUrls ==
    {"TEXTCOLLBYfGiJUETHQ4hAcKSMd5zYpgqf1YRDhkmxHkhPWptrkoyz28wnI9V0aHeAuaKnak",
     "TEXTCOLLBYfGiJUETHQ4hEcKSMd5zYpgqf1YRDhkmxHkhPWptrkoyz28wnI9V0aHeAuaKnak"}

\* hashlib.md5(url.encode()).hexdigest(): the digest of the colliding URLs is
\* the one both have; the digest of any other URL is written "md5(url)",
\* which is the text of no other digest and differs from URL to URL
md5_hexdigest(url) ==
    [md5 |-> IF url \in CollidingUrls
             THEN "faad49866e9498fc1719f5289e7a0269"
             ELSE "md5(" \o url \o ")"]

is_cache_enabled_at_import == TRUE
\* is_cache_enabled(): os.environ.get(USE_CACHE_ENV, "1") == "1"
is_cache_enabled ==
    (IF environ = None THEN "1" ELSE environ[1]) = "1"

get_cache_key_nosuffix(url, suffix) == <<md5_hexdigest(url)>>
\* get_cache_key(url, suffix): f"{key}.{suffix}" if suffix else key
get_cache_key(url, suffix) ==
    IF suffix # ""
    THEN <<md5_hexdigest(url), ".", suffix>>
    ELSE <<md5_hexdigest(url)>>

\* the value get_cached(url, suffix) returns for a directory content `dir`
cached_value(dir, url, suffix) ==
    IF ~ is_cache_enabled THEN None
    ELSE IF get_cache_key(url, suffix) \in DOMAIN dir
         THEN Some(read_text(dir[get_cache_key(url, suffix)]))
         ELSE None

\* the directory content after set_cached(url, content, suffix)
stored_files(dir, url, content, suffix) ==
    IF ~ is_cache_enabled THEN dir
    ELSE [name \in DOMAIN dir \cup {get_cache_key(url, suffix)} |->
            IF name = get_cache_key(url, suffix)
            THEN write_text(content)
            ELSE dir[name]]

NoFiles == [name \in {} |-> <<>>]

\* the inputs the cache calls are drawn from
Urls == {"u1", "u2"}
CacheUrls == {"u1"} \cup CollidingUrls
Suffixes == {"", "xml"}
Contents == {<<>>, <<"a">>, <<CR>>, <<"a", CR, LF, "b">>, <<"U+00E9">>}
EnvValues == {None, Some("1"), Some("0")}

Call(name, url, suffix, content, value) ==
    [op |-> name, url |-> url, suffix |-> suffix, content |-> content, ret |-> value]

\* get_cached(url, suffix)
get_cached(url, suffix) ==
    /\ last' = Call("get", url, suffix, <<>>, cached_value(files, url, suffix))
    /\ UNCHANGED <<environ, files>>
    /\ UNCHANGED runVars
    /\ UNCHANGED auxVars

\* set_cached(url, content, suffix)
set_cached(url, content, suffix) ==
    /\ files' = stored_files(files, url, content, suffix)
    /\ last' = Call("set", url, suffix, content, None)
    /\ UNCHANGED environ
    /\ UNCHANGED runVars
    /\ UNCHANGED auxVars

clear_cache_if_enabled ==
    /\ files' = IF is_cache_enabled THEN NoFiles ELSE files
    /\ last' = Call("clear", "", "", <<>>,
                    Some(IF is_cache_enabled THEN Cardinality(DOMAIN files) ELSE 0))
    /\ UNCHANGED environ
    /\ UNCHANGED runVars
    /\ UNCHANGED auxVars
\* clear_cache(): unlinks every regular file of the directory, returns the count
clear_cache ==
    /\ files' = NoFiles
    /\ last' = Call("clear", "", "", <<>>, Some(Cardinality(DOMAIN files)))
    /\ UNCHANGED environ
    /\ UNCHANGED runVars
    /\ UNCHANGED auxVars

\* the process environment changes between two cache calls
SetEnv(v) ==
    /\ environ' = v
    /\ environ' # environ
    /\ last' = Call("setenv", "", "", <<>>, None)
    /\ UNCHANGED files
    /\ UNCHANGED runVars
    /\ UNCHANGED auxVars

-----------------------------------------------------------------------------
(* Text: str.strip, str.split, str.join, the regular expressions            *)

TAB == "TAB"

VT == "VT"      \* "\x0b"
FF == "FF"      \* "\x0c"
FS == "FS"      \* "\x1c"
GS == "GS"      \* "\x1d"
RS == "RS"      \* "\x1e"
US == "US"      \* "\x1f"
\* the whitespace beyond Latin-1, written by code point
UnicodeSpaces ==
    {"U+1680", "U+2000", "U+2001", "U+2002", "U+2003", "U+2004", "U+2005",
     "U+2006", "U+2007", "U+2008", "U+2009", "U+200A", "U+2028", "U+2029",
     "U+202F", "U+205F", "U+3000"}

\* the characters \s matches in a str pattern and str.strip removes: those
\* str.isspace holds for
Spaces ==
    {" ", TAB, LF, VT, FF, CR, FS, GS, RS, US, NEL, NBSP} \cup UnicodeSpaces
IsSpace(c) == c \in Spaces
UpperAlphabet ==
    <<"A", "B", "C", "D", "E", "F", "G", "H", "I", "J", "K", "L", "M",
      "N", "O", "P", "Q", "R", "S", "T", "U", "V", "W", "X", "Y", "Z">>
LowerAlphabet ==
    <<"a", "b", "c", "d", "e", "f", "g", "h", "i", "j", "k", "l", "m",
      "n", "o", "p", "q", "r", "s", "t", "u", "v", "w", "x", "y", "z">>
Uppers == {UpperAlphabet[i] : i \in 1..Len(UpperAlphabet)}
Lowers == {LowerAlphabet[i] : i \in 1..Len(LowerAlphabet)}
\* the digits [0-9] matches
DigitChars == <<"0", "1", "2", "3", "4", "5", "6", "7", "8", "9">>
AsciiDigits == {DigitChars[n] : n \in 1..Len(DigitChars)}
\* the decimal digits beyond ASCII (str.isdecimal), written by code point:
\* a row holds the digits 0 to 9 of one script
UnicodeDigits ==
    << <<"U+0660", "U+0661", "U+0662", "U+0663", "U+0664", "U+0665", "U+0666", "U+0667", "U+0668", "U+0669">>,
       <<"U+06F0", "U+06F1", "U+06F2", "U+06F3", "U+06F4", "U+06F5", "U+06F6", "U+06F7", "U+06F8", "U+06F9">>,
       <<"U+07C0", "U+07C1", "U+07C2", "U+07C3", "U+07C4", "U+07C5", "U+07C6", "U+07C7", "U+07C8", "U+07C9">>,
       <<"U+0966", "U+0967", "U+0968", "U+0969", "U+096A", "U+096B", "U+096C", "U+096D", "U+096E", "U+096F">>,
       <<"U+09E6", "U+09E7", "U+09E8", "U+09E9", "U+09EA", "U+09EB", "U+09EC", "U+09ED", "U+09EE", "U+09EF">>,
       <<"U+0A66", "U+0A67", "U+0A68", "U+0A69", "U+0A6A", "U+0A6B", "U+0A6C", "U+0A6D", "U+0A6E", "U+0A6F">>,
       <<"U+0AE6", "U+0AE7", "U+0AE8", "U+0AE9", "U+0AEA", "U+0AEB", "U+0AEC", "U+0AED", "U+0AEE", "U+0AEF">>,
       <<"U+0B66", "U+0B67", "U+0B68", "U+0B69", "U+0B6A", "U+0B6B", "U+0B6C", "U+0B6D", "U+0B6E", "U+0B6F">>,
       <<"U+0BE6", "U+0BE7", "U+0BE8", "U+0BE9", "U+0BEA", "U+0BEB", "U+0BEC", "U+0BED", "U+0BEE", "U+0BEF">>,
       <<"U+0C66", "U+0C67", "U+0C68", "U+0C69", "U+0C6A", "U+0C6B", "U+0C6C", "U+0C6D", "U+0C6E", "U+0C6F">>,
       <<"U+0CE6", "U+0CE7", "U+0CE8", "U+0CE9", "U+0CEA", "U+0CEB", "U+0CEC", "U+0CED", "U+0CEE", "U+0CEF">>,
       <<"U+0D66", "U+0D67", "U+0D68", "U+0D69", "U+0D6A", "U+0D6B", "U+0D6C", "U+0D6D", "U+0D6E", "U+0D6F">>,
       <<"U+0DE6", "U+0DE7", "U+0DE8", "U+0DE9", "U+0DEA", "U+0DEB", "U+0DEC", "U+0DED", "U+0DEE", "U+0DEF">>,
       <<"U+0E50", "U+0E51", "U+0E52", "U+0E53", "U+0E54", "U+0E55", "U+0E56", "U+0E57", "U+0E58", "U+0E59">>,
       <<"U+0ED0", "U+0ED1", "U+0ED2", "U+0ED3", "U+0ED4", "U+0ED5", "U+0ED6", "U+0ED7", "U+0ED8", "U+0ED9">>,
       <<"U+0F20", "U+0F21", "U+0F22", "U+0F23", "U+0F24", "U+0F25", "U+0F26", "U+0F27", "U+0F28", "U+0F29">>,
       <<"U+1040", "U+1041", "U+1042", "U+1043", "U+1044", "U+1045", "U+1046", "U+1047", "U+1048", "U+1049">>,
       <<"U+1090", "U+1091", "U+1092", "U+1093", "U+1094", "U+1095", "U+1096", "U+1097", "U+1098", "U+1099">>,
       <<"U+17E0", "U+17E1", "U+17E2", "U+17E3", "U+17E4", "U+17E5", "U+17E6", "U+17E7", "U+17E8", "U+17E9">>,
       <<"U+1810", "U+1811", "U+1812", "U+1813", "U+1814", "U+1815", "U+1816", "U+1817", "U+1818", "U+1819">>,
       <<"U+1946", "U+1947", "U+1948", "U+1949", "U+194A", "U+194B", "U+194C", "U+194D", "U+194E", "U+194F">>,
       <<"U+19D0", "U+19D1", "U+19D2", "U+19D3", "U+19D4", "U+19D5", "U+19D6", "U+19D7", "U+19D8", "U+19D9">>,
       <<"U+1A80", "U+1A81", "U+1A82", "U+1A83", "U+1A84", "U+1A85", "U+1A86", "U+1A87", "U+1A88", "U+1A89">>,
       <<"U+1A90", "U+1A91", "U+1A92", "U+1A93", "U+1A94", "U+1A95", "U+1A96", "U+1A97", "U+1A98", "U+1A99">>,
       <<"U+1B50", "U+1B51", "U+1B52", "U+1B53", "U+1B54", "U+1B55", "U+1B56", "U+1B57", "U+1B58", "U+1B59">>,
       <<"U+1BB0", "U+1BB1", "U+1BB2", "U+1BB3", "U+1BB4", "U+1BB5", "U+1BB6", "U+1BB7", "U+1BB8", "U+1BB9">>,
       <<"U+1C40", "U+1C41", "U+1C42", "U+1C43", "U+1C44", "U+1C45", "U+1C46", "U+1C47", "U+1C48", "U+1C49">>,
       <<"U+1C50", "U+1C51", "U+1C52", "U+1C53", "U+1C54", "U+1C55", "U+1C56", "U+1C57", "U+1C58", "U+1C59">>,
       <<"U+A620", "U+A621", "U+A622", "U+A623", "U+A624", "U+A625", "U+A626", "U+A627", "U+A628", "U+A629">>,
       <<"U+A8D0", "U+A8D1", "U+A8D2", "U+A8D3", "U+A8D4", "U+A8D5", "U+A8D6", "U+A8D7", "U+A8D8", "U+A8D9">>,
       <<"U+A900", "U+A901", "U+A902", "U+A903", "U+A904", "U+A905", "U+A906", "U+A907", "U+A908", "U+A909">>,
       <<"U+A9D0", "U+A9D1", "U+A9D2", "U+A9D3", "U+A9D4", "U+A9D5", "U+A9D6", "U+A9D7", "U+A9D8", "U+A9D9">>,
       <<"U+A9F0", "U+A9F1", "U+A9F2", "U+A9F3", "U+A9F4", "U+A9F5", "U+A9F6", "U+A9F7", "U+A9F8", "U+A9F9">>,
       <<"U+AA50", "U+AA51", "U+AA52", "U+AA53", "U+AA54", "U+AA55", "U+AA56", "U+AA57", "U+AA58", "U+AA59">>,
       <<"U+ABF0", "U+ABF1", "U+ABF2", "U+ABF3", "U+ABF4", "U+ABF5", "U+ABF6", "U+ABF7", "U+ABF8", "U+ABF9">>,
       <<"U+FF10", "U+FF11", "U+FF12", "U+FF13", "U+FF14", "U+FF15", "U+FF16", "U+FF17", "U+FF18", "U+FF19">>,
       <<"U+104A0", "U+104A1", "U+104A2", "U+104A3", "U+104A4", "U+104A5", "U+104A6", "U+104A7", "U+104A8", "U+104A9">>,
       <<"U+10D30", "U+10D31", "U+10D32", "U+10D33", "U+10D34", "U+10D35", "U+10D36", "U+10D37", "U+10D38", "U+10D39">>,
       <<"U+11066", "U+11067", "U+11068", "U+11069", "U+1106A", "U+1106B", "U+1106C", "U+1106D", "U+1106E", "U+1106F">>,
       <<"U+110F0", "U+110F1", "U+110F2", "U+110F3", "U+110F4", "U+110F5", "U+110F6", "U+110F7", "U+110F8", "U+110F9">>,
       <<"U+11136", "U+11137", "U+11138", "U+11139", "U+1113A", "U+1113B", "U+1113C", "U+1113D", "U+1113E", "U+1113F">>,
       <<"U+111D0", "U+111D1", "U+111D2", "U+111D3", "U+111D4", "U+111D5", "U+111D6", "U+111D7", "U+111D8", "U+111D9">>,
       <<"U+112F0", "U+112F1", "U+112F2", "U+112F3", "U+112F4", "U+112F5", "U+112F6", "U+112F7", "U+112F8", "U+112F9">>,
       <<"U+11450", "U+11451", "U+11452", "U+11453", "U+11454", "U+11455", "U+11456", "U+11457", "U+11458", "U+11459">>,
       <<"U+114D0", "U+114D1", "U+114D2", "U+114D3", "U+114D4", "U+114D5", "U+114D6", "U+114D7", "U+114D8", "U+114D9">>,
       <<"U+11650", "U+11651", "U+11652", "U+11653", "U+11654", "U+11655", "U+11656", "U+11657", "U+11658", "U+11659">>,
       <<"U+116C0", "U+116C1", "U+116C2", "U+116C3", "U+116C4", "U+116C5", "U+116C6", "U+116C7", "U+116C8", "U+116C9">>,
       <<"U+11730", "U+11731", "U+11732", "U+11733", "U+11734", "U+11735", "U+11736", "U+11737", "U+11738", "U+11739">>,
       <<"U+118E0", "U+118E1", "U+118E2", "U+118E3", "U+118E4", "U+118E5", "U+118E6", "U+118E7", "U+118E8", "U+118E9">>,
       <<"U+11950", "U+11951", "U+11952", "U+11953", "U+11954", "U+11955", "U+11956", "U+11957", "U+11958", "U+11959">>,
       <<"U+11C50", "U+11C51", "U+11C52", "U+11C53", "U+11C54", "U+11C55", "U+11C56", "U+11C57", "U+11C58", "U+11C59">>,
       <<"U+11D50", "U+11D51", "U+11D52", "U+11D53", "U+11D54", "U+11D55", "U+11D56", "U+11D57", "U+11D58", "U+11D59">>,
       <<"U+11DA0", "U+11DA1", "U+11DA2", "U+11DA3", "U+11DA4", "U+11DA5", "U+11DA6", "U+11DA7", "U+11DA8", "U+11DA9">>,
       <<"U+16A60", "U+16A61", "U+16A62", "U+16A63", "U+16A64", "U+16A65", "U+16A66", "U+16A67", "U+16A68", "U+16A69">>,
       <<"U+16AC0", "U+16AC1", "U+16AC2", "U+16AC3", "U+16AC4", "U+16AC5", "U+16AC6", "U+16AC7", "U+16AC8", "U+16AC9">>,
       <<"U+16B50", "U+16B51", "U+16B52", "U+16B53", "U+16B54", "U+16B55", "U+16B56", "U+16B57", "U+16B58", "U+16B59">>,
       <<"U+1D7CE", "U+1D7CF", "U+1D7D0", "U+1D7D1", "U+1D7D2", "U+1D7D3", "U+1D7D4", "U+1D7D5", "U+1D7D6", "U+1D7D7">>,
       <<"U+1D7D8", "U+1D7D9", "U+1D7DA", "U+1D7DB", "U+1D7DC", "U+1D7DD", "U+1D7DE", "U+1D7DF", "U+1D7E0", "U+1D7E1">>,
       <<"U+1D7E2", "U+1D7E3", "U+1D7E4", "U+1D7E5", "U+1D7E6", "U+1D7E7", "U+1D7E8", "U+1D7E9", "U+1D7EA", "U+1D7EB">>,
       <<"U+1D7EC", "U+1D7ED", "U+1D7EE", "U+1D7EF", "U+1D7F0", "U+1D7F1", "U+1D7F2", "U+1D7F3", "U+1D7F4", "U+1D7F5">>,
       <<"U+1D7F6", "U+1D7F7", "U+1D7F8", "U+1D7F9", "U+1D7FA", "U+1D7FB", "U+1D7FC", "U+1D7FD", "U+1D7FE", "U+1D7FF">>,
       <<"U+1E140", "U+1E141", "U+1E142", "U+1E143", "U+1E144", "U+1E145", "U+1E146", "U+1E147", "U+1E148", "U+1E149">>,
       <<"U+1E2F0", "U+1E2F1", "U+1E2F2", "U+1E2F3", "U+1E2F4", "U+1E2F5", "U+1E2F6", "U+1E2F7", "U+1E2F8", "U+1E2F9">>,
       <<"U+1E950", "U+1E951", "U+1E952", "U+1E953", "U+1E954", "U+1E955", "U+1E956", "U+1E957", "U+1E958", "U+1E959">>,
       <<"U+1FBF0", "U+1FBF1", "U+1FBF2", "U+1FBF3", "U+1FBF4", "U+1FBF5", "U+1FBF6", "U+1FBF7", "U+1FBF8", "U+1FBF9">> >>
\* the digits of the rows of a table of digits
digits_of(rows) ==
    {rows[r][n] : r \in 1..Len(rows), n \in 1..Len(DigitChars)}
\* the characters \d matches in a str pattern: every decimal digit
Digits == AsciiDigits \cup digits_of(UnicodeDigits)

RECURSIVE lstrip(_)
lstrip(s) == IF s # <<>> /\ IsSpace(Head(s)) THEN lstrip(Tail(s)) ELSE s

RECURSIVE rstrip(_)
rstrip(s) ==
    IF s # <<>> /\ IsSpace(s[Len(s)]) THEN rstrip(SubSeq(s, 1, Len(s) - 1))
    ELSE s

\* str.strip()
strip(s) == rstrip(lstrip(s))

\* str.startswith(prefix)
startswith(s, prefix) ==
    Len(s) >= Len(prefix) /\ SubSeq(s, 1, Len(prefix)) = prefix

\* sub in s
contains(s, sub) ==
    \E i \in 1..(Len(s) - Len(sub) + 1) : SubSeq(s, i, i + Len(sub) - 1) = sub

\* str.split('\n')
RECURSIVE split_lines(_)
split_lines(s) ==
    IF \A i \in 1..Len(s) : s[i] # LF THEN <<s>>
    ELSE LET i == CHOOSE i \in 1..Len(s) :
                     s[i] = LF /\ \A n \in 1..(i - 1) : s[n] # LF
         IN  <<SubSeq(s, 1, i - 1)>> \o split_lines(SubSeq(s, i + 1, Len(s)))

\* ' '.join(parts)
RECURSIVE join_space(_)
join_space(parts) ==
    IF parts = <<>> THEN <<>>
    ELSE IF Len(parts) = 1 THEN parts[1]
    ELSE parts[1] \o <<" ">> \o join_space(Tail(parts))

\* ''.join(parts)
RECURSIVE join_empty(_)
join_empty(parts) ==
    IF parts = <<>> THEN <<>> ELSE parts[1] \o join_empty(Tail(parts))

\* re.sub(r'\s+', ' ', s)
RECURSIVE sub_whitespace(_)
sub_whitespace(s) ==
    IF s = <<>> THEN <<>>
    ELSE IF IsSpace(Head(s)) THEN <<" ">> \o sub_whitespace(lstrip(s))
    ELSE <<Head(s)>> \o sub_whitespace(Tail(s))

\* re.sub(r'<[^>]+>', '', s)
RECURSIVE sub_tags(_)
sub_tags(s) ==
    IF s = <<>> THEN <<>>
    ELSE IF /\ Head(s) = "<"
            /\ \E i \in 3..Len(s) : s[i] = ">" /\ \A n \in 2..(i - 1) : s[n] # ">"
         THEN LET i == CHOOSE i \in 3..Len(s) :
                          s[i] = ">" /\ \A n \in 2..(i - 1) : s[n] # ">"
              IN  sub_tags(SubSeq(s, i + 1, Len(s)))
         ELSE <<Head(s)>> \o sub_tags(Tail(s))

\* the length of the longest prefix of s made of characters of the class
RECURSIVE run_length(_, _)
run_length(s, class) ==
    IF s # <<>> /\ Head(s) \in class THEN 1 + run_length(Tail(s), class) ELSE 0

\* the length of the match of \d+:\d+:\d+ at the start of s, 0 when none
timestamp_length(s) ==
    bind(run_length(s, Digits), LAMBDA d1 :
    IF ~ (d1 >= 1 /\ Len(s) > d1 /\ s[d1 + 1] = ":") THEN 0 ELSE
    bind(SubSeq(s, d1 + 2, Len(s)), LAMBDA s2 :
    bind(run_length(s2, Digits), LAMBDA d2 :
    IF ~ (d2 >= 1 /\ Len(s2) > d2 /\ s2[d2 + 1] = ":") THEN 0 ELSE
    bind(run_length(SubSeq(s2, d2 + 2, Len(s2)), Digits), LAMBDA d3 :
    IF d3 >= 1 THEN d1 + 1 + d2 + 1 + d3 ELSE 0))))

\* re.sub(r'^[A-Z\s]+\d+:\d+:\d+', '', s)
sub_speaker(s) ==
    bind(run_length(s, Uppers \cup Spaces), LAMBDA p :
    bind(timestamp_length(SubSeq(s, p + 1, Len(s))), LAMBDA t :
    IF p >= 1 /\ t >= 1 THEN SubSeq(s, p + t + 1, Len(s)) ELSE s))

-----------------------------------------------------------------------------
(* Dates: datetime.strptime, timedelta, OpenAINewsScraper._parse_date       *)
(*                                                                         *)
(* An instant is a number of seconds since Epoch, 2024-01-03T00:00:00 UTC;  *)
(* instants may be negative.  Microseconds are not counted.                 *)

SecondsPerMinute == 60
SecondsPerHour == 3600
SecondsPerDay == 86400
DaysPerWeek == 7
\* date(2024, 1, 3).toordinal()
EpochOrdinal == 738888
\* datetime.min.toordinal(), the first day a datetime can hold
MinOrdinal == 1

\* int(c) of one decimal digit
digit_place(c, rows) ==
    CHOOSE n \in 1..Len(DigitChars) :
        \/ DigitChars[n] = c
        \/ \E r \in 1..Len(rows) : rows[r][n] = c
DigitValue(c) == digit_place(c, UnicodeDigits) - 1

\* int(digits)
RECURSIVE int(_)
int(digits) ==
    IF digits = <<>> THEN 0
    ELSE int(SubSeq(digits, 1, Len(digits) - 1)) * 10
         + DigitValue(digits[Len(digits)])

\* the characters beyond ASCII that str.lower changes into one character,
\* each with the character it becomes, written by code point
CasedCharacters ==
    << <<"U+00C0", "U+00E0">>, <<"U+00C1", "U+00E1">>, <<"U+00C2", "U+00E2">>, <<"U+00C3", "U+00E3">>,
       <<"U+00C4", "U+00E4">>, <<"U+00C5", "U+00E5">>, <<"U+00C6", "U+00E6">>, <<"U+00C7", "U+00E7">>,
       <<"U+00C8", "U+00E8">>, <<"U+00C9", "U+00E9">>, <<"U+00CA", "U+00EA">>, <<"U+00CB", "U+00EB">>,
       <<"U+00CC", "U+00EC">>, <<"U+00CD", "U+00ED">>, <<"U+00CE", "U+00EE">>, <<"U+00CF", "U+00EF">>,
       <<"U+00D0", "U+00F0">>, <<"U+00D1", "U+00F1">>, <<"U+00D2", "U+00F2">>, <<"U+00D3", "U+00F3">>,
       <<"U+00D4", "U+00F4">>, <<"U+00D5", "U+00F5">>, <<"U+00D6", "U+00F6">>, <<"U+00D8", "U+00F8">>,
       <<"U+00D9", "U+00F9">>, <<"U+00DA", "U+00FA">>, <<"U+00DB", "U+00FB">>, <<"U+00DC", "U+00FC">>,
       <<"U+00DD", "U+00FD">>, <<"U+00DE", "U+00FE">>, <<"U+0100", "U+0101">>, <<"U+0102", "U+0103">>,
       <<"U+0104", "U+0105">>, <<"U+0106", "U+0107">>, <<"U+0108", "U+0109">>, <<"U+010A", "U+010B">>,
       <<"U+010C", "U+010D">>, <<"U+010E", "U+010F">>, <<"U+0110", "U+0111">>, <<"U+0112", "U+0113">>,
       <<"U+0114", "U+0115">>, <<"U+0116", "U+0117">>, <<"U+0118", "U+0119">>, <<"U+011A", "U+011B">>,
       <<"U+011C", "U+011D">>, <<"U+011E", "U+011F">>, <<"U+0120", "U+0121">>, <<"U+0122", "U+0123">>,
       <<"U+0124", "U+0125">>, <<"U+0126", "U+0127">>, <<"U+0128", "U+0129">>, <<"U+012A", "U+012B">>,
       <<"U+012C", "U+012D">>, <<"U+012E", "U+012F">>, <<"U+0132", "U+0133">>, <<"U+0134", "U+0135">>,
       <<"U+0136", "U+0137">>, <<"U+0139", "U+013A">>, <<"U+013B", "U+013C">>, <<"U+013D", "U+013E">>,
       <<"U+013F", "U+0140">>, <<"U+0141", "U+0142">>, <<"U+0143", "U+0144">>, <<"U+0145", "U+0146">>,
       <<"U+0147", "U+0148">>, <<"U+014A", "U+014B">>, <<"U+014C", "U+014D">>, <<"U+014E", "U+014F">>,
       <<"U+0150", "U+0151">>, <<"U+0152", "U+0153">>, <<"U+0154", "U+0155">>, <<"U+0156", "U+0157">>,
       <<"U+0158", "U+0159">>, <<"U+015A", "U+015B">>, <<"U+015C", "U+015D">>, <<"U+015E", "U+015F">>,
       <<"U+0160", "U+0161">>, <<"U+0162", "U+0163">>, <<"U+0164", "U+0165">>, <<"U+0166", "U+0167">>,
       <<"U+0168", "U+0169">>, <<"U+016A", "U+016B">>, <<"U+016C", "U+016D">>, <<"U+016E", "U+016F">>,
       <<"U+0170", "U+0171">>, <<"U+0172", "U+0173">>, <<"U+0174", "U+0175">>, <<"U+0176", "U+0177">>,
       <<"U+0178", "U+00FF">>, <<"U+0179", "U+017A">>, <<"U+017B", "U+017C">>, <<"U+017D", "U+017E">>,
       <<"U+0181", "U+0253">>, <<"U+0182", "U+0183">>, <<"U+0184", "U+0185">>, <<"U+0186", "U+0254">>,
       <<"U+0187", "U+0188">>, <<"U+0189", "U+0256">>, <<"U+018A", "U+0257">>, <<"U+018B", "U+018C">>,
       <<"U+018E", "U+01DD">>, <<"U+018F", "U+0259">>, <<"U+0190", "U+025B">>, <<"U+0191", "U+0192">>,
       <<"U+0193", "U+0260">>, <<"U+0194", "U+0263">>, <<"U+0196", "U+0269">>, <<"U+0197", "U+0268">>,
       <<"U+0198", "U+0199">>, <<"U+019C", "U+026F">>, <<"U+019D", "U+0272">>, <<"U+019F", "U+0275">>,
       <<"U+01A0", "U+01A1">>, <<"U+01A2", "U+01A3">>, <<"U+01A4", "U+01A5">>, <<"U+01A6", "U+0280">>,
       <<"U+01A7", "U+01A8">>, <<"U+01A9", "U+0283">>, <<"U+01AC", "U+01AD">>, <<"U+01AE", "U+0288">>,
       <<"U+01AF", "U+01B0">>, <<"U+01B1", "U+028A">>, <<"U+01B2", "U+028B">>, <<"U+01B3", "U+01B4">>,
       <<"U+01B5", "U+01B6">>, <<"U+01B7", "U+0292">>, <<"U+01B8", "U+01B9">>, <<"U+01BC", "U+01BD">>,
       <<"U+01C4", "U+01C6">>, <<"U+01C5", "U+01C6">>, <<"U+01C7", "U+01C9">>, <<"U+01C8", "U+01C9">>,
       <<"U+01CA", "U+01CC">>, <<"U+01CB", "U+01CC">>, <<"U+01CD", "U+01CE">>, <<"U+01CF", "U+01D0">>,
       <<"U+01D1", "U+01D2">>, <<"U+01D3", "U+01D4">>, <<"U+01D5", "U+01D6">>, <<"U+01D7", "U+01D8">>,
       <<"U+01D9", "U+01DA">>, <<"U+01DB", "U+01DC">>, <<"U+01DE", "U+01DF">>, <<"U+01E0", "U+01E1">>,
       <<"U+01E2", "U+01E3">>, <<"U+01E4", "U+01E5">>, <<"U+01E6", "U+01E7">>, <<"U+01E8", "U+01E9">>,
       <<"U+01EA", "U+01EB">>, <<"U+01EC", "U+01ED">>, <<"U+01EE", "U+01EF">>, <<"U+01F1", "U+01F3">>,
       <<"U+01F2", "U+01F3">>, <<"U+01F4", "U+01F5">>, <<"U+01F6", "U+0195">>, <<"U+01F7", "U+01BF">>,
       <<"U+01F8", "U+01F9">>, <<"U+01FA", "U+01FB">>, <<"U+01FC", "U+01FD">>, <<"U+01FE", "U+01FF">>,
       <<"U+0200", "U+0201">>, <<"U+0202", "U+0203">>, <<"U+0204", "U+0205">>, <<"U+0206", "U+0207">>,
       <<"U+0208", "U+0209">>, <<"U+020A", "U+020B">>, <<"U+020C", "U+020D">>, <<"U+020E", "U+020F">>,
       <<"U+0210", "U+0211">>, <<"U+0212", "U+0213">>, <<"U+0214", "U+0215">>, <<"U+0216", "U+0217">>,
       <<"U+0218", "U+0219">>, <<"U+021A", "U+021B">>, <<"U+021C", "U+021D">>, <<"U+021E", "U+021F">>,
       <<"U+0220", "U+019E">>, <<"U+0222", "U+0223">>, <<"U+0224", "U+0225">>, <<"U+0226", "U+0227">>,
       <<"U+0228", "U+0229">>, <<"U+022A", "U+022B">>, <<"U+022C", "U+022D">>, <<"U+022E", "U+022F">>,
       <<"U+0230", "U+0231">>, <<"U+0232", "U+0233">>, <<"U+023A", "U+2C65">>, <<"U+023B", "U+023C">>,
       <<"U+023D", "U+019A">>, <<"U+023E", "U+2C66">>, <<"U+0241", "U+0242">>, <<"U+0243", "U+0180">>,
       <<"U+0244", "U+0289">>, <<"U+0245", "U+028C">>, <<"U+0246", "U+0247">>, <<"U+0248", "U+0249">>,
       <<"U+024A", "U+024B">>, <<"U+024C", "U+024D">>, <<"U+024E", "U+024F">>, <<"U+0370", "U+0371">>,
       <<"U+0372", "U+0373">>, <<"U+0376", "U+0377">>, <<"U+037F", "U+03F3">>, <<"U+0386", "U+03AC">>,
       <<"U+0388", "U+03AD">>, <<"U+0389", "U+03AE">>, <<"U+038A", "U+03AF">>, <<"U+038C", "U+03CC">>,
       <<"U+038E", "U+03CD">>, <<"U+038F", "U+03CE">>, <<"U+0391", "U+03B1">>, <<"U+0392", "U+03B2">>,
       <<"U+0393", "U+03B3">>, <<"U+0394", "U+03B4">>, <<"U+0395", "U+03B5">>, <<"U+0396", "U+03B6">>,
       <<"U+0397", "U+03B7">>, <<"U+0398", "U+03B8">>, <<"U+0399", "U+03B9">>, <<"U+039A", "U+03BA">>,
       <<"U+039B", "U+03BB">>, <<"U+039C", "U+03BC">>, <<"U+039D", "U+03BD">>, <<"U+039E", "U+03BE">>,
       <<"U+039F", "U+03BF">>, <<"U+03A0", "U+03C0">>, <<"U+03A1", "U+03C1">>, <<"U+03A3", "U+03C3">>,
       <<"U+03A4", "U+03C4">>, <<"U+03A5", "U+03C5">>, <<"U+03A6", "U+03C6">>, <<"U+03A7", "U+03C7">>,
       <<"U+03A8", "U+03C8">>, <<"U+03A9", "U+03C9">>, <<"U+03AA", "U+03CA">>, <<"U+03AB", "U+03CB">>,
       <<"U+03CF", "U+03D7">>, <<"U+03D8", "U+03D9">>, <<"U+03DA", "U+03DB">>, <<"U+03DC", "U+03DD">>,
       <<"U+03DE", "U+03DF">>, <<"U+03E0", "U+03E1">>, <<"U+03E2", "U+03E3">>, <<"U+03E4", "U+03E5">>,
       <<"U+03E6", "U+03E7">>, <<"U+03E8", "U+03E9">>, <<"U+03EA", "U+03EB">>, <<"U+03EC", "U+03ED">>,
       <<"U+03EE", "U+03EF">>, <<"U+03F4", "U+03B8">>, <<"U+03F7", "U+03F8">>, <<"U+03F9", "U+03F2">>,
       <<"U+03FA", "U+03FB">>, <<"U+03FD", "U+037B">>, <<"U+03FE", "U+037C">>, <<"U+03FF", "U+037D">>,
       <<"U+0400", "U+0450">>, <<"U+0401", "U+0451">>, <<"U+0402", "U+0452">>, <<"U+0403", "U+0453">>,
       <<"U+0404", "U+0454">>, <<"U+0405", "U+0455">>, <<"U+0406", "U+0456">>, <<"U+0407", "U+0457">>,
       <<"U+0408", "U+0458">>, <<"U+0409", "U+0459">>, <<"U+040A", "U+045A">>, <<"U+040B", "U+045B">>,
       <<"U+040C", "U+045C">>, <<"U+040D", "U+045D">>, <<"U+040E", "U+045E">>, <<"U+040F", "U+045F">>,
       <<"U+0410", "U+0430">>, <<"U+0411", "U+0431">>, <<"U+0412", "U+0432">>, <<"U+0413", "U+0433">>,
       <<"U+0414", "U+0434">>, <<"U+0415", "U+0435">>, <<"U+0416", "U+0436">>, <<"U+0417", "U+0437">>,
       <<"U+0418", "U+0438">>, <<"U+0419", "U+0439">>, <<"U+041A", "U+043A">>, <<"U+041B", "U+043B">>,
       <<"U+041C", "U+043C">>, <<"U+041D", "U+043D">>, <<"U+041E", "U+043E">>, <<"U+041F", "U+043F">>,
       <<"U+0420", "U+0440">>, <<"U+0421", "U+0441">>, <<"U+0422", "U+0442">>, <<"U+0423", "U+0443">>,
       <<"U+0424", "U+0444">>, <<"U+0425", "U+0445">>, <<"U+0426", "U+0446">>, <<"U+0427", "U+0447">>,
       <<"U+0428", "U+0448">>, <<"U+0429", "U+0449">>, <<"U+042A", "U+044A">>, <<"U+042B", "U+044B">>,
       <<"U+042C", "U+044C">>, <<"U+042D", "U+044D">>, <<"U+042E", "U+044E">>, <<"U+042F", "U+044F">>,
       <<"U+0460", "U+0461">>, <<"U+0462", "U+0463">>, <<"U+0464", "U+0465">>, <<"U+0466", "U+0467">>,
       <<"U+0468", "U+0469">>, <<"U+046A", "U+046B">>, <<"U+046C", "U+046D">>, <<"U+046E", "U+046F">>,
       <<"U+0470", "U+0471">>, <<"U+0472", "U+0473">>, <<"U+0474", "U+0475">>, <<"U+0476", "U+0477">>,
       <<"U+0478", "U+0479">>, <<"U+047A", "U+047B">>, <<"U+047C", "U+047D">>, <<"U+047E", "U+047F">>,
       <<"U+0480", "U+0481">>, <<"U+048A", "U+048B">>, <<"U+048C", "U+048D">>, <<"U+048E", "U+048F">>,
       <<"U+0490", "U+0491">>, <<"U+0492", "U+0493">>, <<"U+0494", "U+0495">>, <<"U+0496", "U+0497">>,
       <<"U+0498", "U+0499">>, <<"U+049A", "U+049B">>, <<"U+049C", "U+049D">>, <<"U+049E", "U+049F">>,
       <<"U+04A0", "U+04A1">>, <<"U+04A2", "U+04A3">>, <<"U+04A4", "U+04A5">>, <<"U+04A6", "U+04A7">>,
       <<"U+04A8", "U+04A9">>, <<"U+04AA", "U+04AB">>, <<"U+04AC", "U+04AD">>, <<"U+04AE", "U+04AF">>,
       <<"U+04B0", "U+04B1">>, <<"U+04B2", "U+04B3">>, <<"U+04B4", "U+04B5">>, <<"U+04B6", "U+04B7">>,
       <<"U+04B8", "U+04B9">>, <<"U+04BA", "U+04BB">>, <<"U+04BC", "U+04BD">>, <<"U+04BE", "U+04BF">>,
       <<"U+04C0", "U+04CF">>, <<"U+04C1", "U+04C2">>, <<"U+04C3", "U+04C4">>, <<"U+04C5", "U+04C6">>,
       <<"U+04C7", "U+04C8">>, <<"U+04C9", "U+04CA">>, <<"U+04CB", "U+04CC">>, <<"U+04CD", "U+04CE">>,
       <<"U+04D0", "U+04D1">>, <<"U+04D2", "U+04D3">>, <<"U+04D4", "U+04D5">>, <<"U+04D6", "U+04D7">>,
       <<"U+04D8", "U+04D9">>, <<"U+04DA", "U+04DB">>, <<"U+04DC", "U+04DD">>, <<"U+04DE", "U+04DF">>,
       <<"U+04E0", "U+04E1">>, <<"U+04E2", "U+04E3">>, <<"U+04E4", "U+04E5">>, <<"U+04E6", "U+04E7">>,
       <<"U+04E8", "U+04E9">>, <<"U+04EA", "U+04EB">>, <<"U+04EC", "U+04ED">>, <<"U+04EE", "U+04EF">>,
       <<"U+04F0", "U+04F1">>, <<"U+04F2", "U+04F3">>, <<"U+04F4", "U+04F5">>, <<"U+04F6", "U+04F7">>,
       <<"U+04F8", "U+04F9">>, <<"U+04FA", "U+04FB">>, <<"U+04FC", "U+04FD">>, <<"U+04FE", "U+04FF">>,
       <<"U+0500", "U+0501">>, <<"U+0502", "U+0503">>, <<"U+0504", "U+0505">>, <<"U+0506", "U+0507">>,
       <<"U+0508", "U+0509">>, <<"U+050A", "U+050B">>, <<"U+050C", "U+050D">>, <<"U+050E", "U+050F">>,
       <<"U+0510", "U+0511">>, <<"U+0512", "U+0513">>, <<"U+0514", "U+0515">>, <<"U+0516", "U+0517">>,
       <<"U+0518", "U+0519">>, <<"U+051A", "U+051B">>, <<"U+051C", "U+051D">>, <<"U+051E", "U+051F">>,
       <<"U+0520", "U+0521">>, <<"U+0522", "U+0523">>, <<"U+0524", "U+0525">>, <<"U+0526", "U+0527">>,
       <<"U+0528", "U+0529">>, <<"U+052A", "U+052B">>, <<"U+052C", "U+052D">>, <<"U+052E", "U+052F">>,
       <<"U+0531", "U+0561">>, <<"U+0532", "U+0562">>, <<"U+0533", "U+0563">>, <<"U+0534", "U+0564">>,
       <<"U+0535", "U+0565">>, <<"U+0536", "U+0566">>, <<"U+0537", "U+0567">>, <<"U+0538", "U+0568">>,
       <<"U+0539", "U+0569">>, <<"U+053A", "U+056A">>, <<"U+053B", "U+056B">>, <<"U+053C", "U+056C">>,
       <<"U+053D", "U+056D">>, <<"U+053E", "U+056E">>, <<"U+053F", "U+056F">>, <<"U+0540", "U+0570">>,
       <<"U+0541", "U+0571">>, <<"U+0542", "U+0572">>, <<"U+0543", "U+0573">>, <<"U+0544", "U+0574">>,
       <<"U+0545", "U+0575">>, <<"U+0546", "U+0576">>, <<"U+0547", "U+0577">>, <<"U+0548", "U+0578">>,
       <<"U+0549", "U+0579">>, <<"U+054A", "U+057A">>, <<"U+054B", "U+057B">>, <<"U+054C", "U+057C">>,
       <<"U+054D", "U+057D">>, <<"U+054E", "U+057E">>, <<"U+054F", "U+057F">>, <<"U+0550", "U+0580">>,
       <<"U+0551", "U+0581">>, <<"U+0552", "U+0582">>, <<"U+0553", "U+0583">>, <<"U+0554", "U+0584">>,
       <<"U+0555", "U+0585">>, <<"U+0556", "U+0586">>, <<"U+10A0", "U+2D00">>, <<"U+10A1", "U+2D01">>,
       <<"U+10A2", "U+2D02">>, <<"U+10A3", "U+2D03">>, <<"U+10A4", "U+2D04">>, <<"U+10A5", "U+2D05">>,
       <<"U+10A6", "U+2D06">>, <<"U+10A7", "U+2D07">>, <<"U+10A8", "U+2D08">>, <<"U+10A9", "U+2D09">>,
       <<"U+10AA", "U+2D0A">>, <<"U+10AB", "U+2D0B">>, <<"U+10AC", "U+2D0C">>, <<"U+10AD", "U+2D0D">>,
       <<"U+10AE", "U+2D0E">>, <<"U+10AF", "U+2D0F">>, <<"U+10B0", "U+2D10">>, <<"U+10B1", "U+2D11">>,
       <<"U+10B2", "U+2D12">>, <<"U+10B3", "U+2D13">>, <<"U+10B4", "U+2D14">>, <<"U+10B5", "U+2D15">>,
       <<"U+10B6", "U+2D16">>, <<"U+10B7", "U+2D17">>, <<"U+10B8", "U+2D18">>, <<"U+10B9", "U+2D19">>,
       <<"U+10BA", "U+2D1A">>, <<"U+10BB", "U+2D1B">>, <<"U+10BC", "U+2D1C">>, <<"U+10BD", "U+2D1D">>,
       <<"U+10BE", "U+2D1E">>, <<"U+10BF", "U+2D1F">>, <<"U+10C0", "U+2D20">>, <<"U+10C1", "U+2D21">>,
       <<"U+10C2", "U+2D22">>, <<"U+10C3", "U+2D23">>, <<"U+10C4", "U+2D24">>, <<"U+10C5", "U+2D25">>,
       <<"U+10C7", "U+2D27">>, <<"U+10CD", "U+2D2D">>, <<"U+13A0", "U+AB70">>, <<"U+13A1", "U+AB71">>,
       <<"U+13A2", "U+AB72">>, <<"U+13A3", "U+AB73">>, <<"U+13A4", "U+AB74">>, <<"U+13A5", "U+AB75">>,
       <<"U+13A6", "U+AB76">>, <<"U+13A7", "U+AB77">>, <<"U+13A8", "U+AB78">>, <<"U+13A9", "U+AB79">>,
       <<"U+13AA", "U+AB7A">>, <<"U+13AB", "U+AB7B">>, <<"U+13AC", "U+AB7C">>, <<"U+13AD", "U+AB7D">>,
       <<"U+13AE", "U+AB7E">>, <<"U+13AF", "U+AB7F">>, <<"U+13B0", "U+AB80">>, <<"U+13B1", "U+AB81">>,
       <<"U+13B2", "U+AB82">>, <<"U+13B3", "U+AB83">>, <<"U+13B4", "U+AB84">>, <<"U+13B5", "U+AB85">>,
       <<"U+13B6", "U+AB86">>, <<"U+13B7", "U+AB87">>, <<"U+13B8", "U+AB88">>, <<"U+13B9", "U+AB89">>,
       <<"U+13BA", "U+AB8A">>, <<"U+13BB", "U+AB8B">>, <<"U+13BC", "U+AB8C">>, <<"U+13BD", "U+AB8D">>,
       <<"U+13BE", "U+AB8E">>, <<"U+13BF", "U+AB8F">>, <<"U+13C0", "U+AB90">>, <<"U+13C1", "U+AB91">>,
       <<"U+13C2", "U+AB92">>, <<"U+13C3", "U+AB93">>, <<"U+13C4", "U+AB94">>, <<"U+13C5", "U+AB95">>,
       <<"U+13C6", "U+AB96">>, <<"U+13C7", "U+AB97">>, <<"U+13C8", "U+AB98">>, <<"U+13C9", "U+AB99">>,
       <<"U+13CA", "U+AB9A">>, <<"U+13CB", "U+AB9B">>, <<"U+13CC", "U+AB9C">>, <<"U+13CD", "U+AB9D">>,
       <<"U+13CE", "U+AB9E">>, <<"U+13CF", "U+AB9F">>, <<"U+13D0", "U+ABA0">>, <<"U+13D1", "U+ABA1">>,
       <<"U+13D2", "U+ABA2">>, <<"U+13D3", "U+ABA3">>, <<"U+13D4", "U+ABA4">>, <<"U+13D5", "U+ABA5">>,
       <<"U+13D6", "U+ABA6">>, <<"U+13D7", "U+ABA7">>, <<"U+13D8", "U+ABA8">>, <<"U+13D9", "U+ABA9">>,
       <<"U+13DA", "U+ABAA">>, <<"U+13DB", "U+ABAB">>, <<"U+13DC", "U+ABAC">>, <<"U+13DD", "U+ABAD">>,
       <<"U+13DE", "U+ABAE">>, <<"U+13DF", "U+ABAF">>, <<"U+13E0", "U+ABB0">>, <<"U+13E1", "U+ABB1">>,
       <<"U+13E2", "U+ABB2">>, <<"U+13E3", "U+ABB3">>, <<"U+13E4", "U+ABB4">>, <<"U+13E5", "U+ABB5">>,
       <<"U+13E6", "U+ABB6">>, <<"U+13E7", "U+ABB7">>, <<"U+13E8", "U+ABB8">>, <<"U+13E9", "U+ABB9">>,
       <<"U+13EA", "U+ABBA">>, <<"U+13EB", "U+ABBB">>, <<"U+13EC", "U+ABBC">>, <<"U+13ED", "U+ABBD">>,
       <<"U+13EE", "U+ABBE">>, <<"U+13EF", "U+ABBF">>, <<"U+13F0", "U+13F8">>, <<"U+13F1", "U+13F9">>,
       <<"U+13F2", "U+13FA">>, <<"U+13F3", "U+13FB">>, <<"U+13F4", "U+13FC">>, <<"U+13F5", "U+13FD">>,
       <<"U+1C90", "U+10D0">>, <<"U+1C91", "U+10D1">>, <<"U+1C92", "U+10D2">>, <<"U+1C93", "U+10D3">>,
       <<"U+1C94", "U+10D4">>, <<"U+1C95", "U+10D5">>, <<"U+1C96", "U+10D6">>, <<"U+1C97", "U+10D7">>,
       <<"U+1C98", "U+10D8">>, <<"U+1C99", "U+10D9">>, <<"U+1C9A", "U+10DA">>, <<"U+1C9B", "U+10DB">>,
       <<"U+1C9C", "U+10DC">>, <<"U+1C9D", "U+10DD">>, <<"U+1C9E", "U+10DE">>, <<"U+1C9F", "U+10DF">>,
       <<"U+1CA0", "U+10E0">>, <<"U+1CA1", "U+10E1">>, <<"U+1CA2", "U+10E2">>, <<"U+1CA3", "U+10E3">>,
       <<"U+1CA4", "U+10E4">>, <<"U+1CA5", "U+10E5">>, <<"U+1CA6", "U+10E6">>, <<"U+1CA7", "U+10E7">>,
       <<"U+1CA8", "U+10E8">>, <<"U+1CA9", "U+10E9">>, <<"U+1CAA", "U+10EA">>, <<"U+1CAB", "U+10EB">>,
       <<"U+1CAC", "U+10EC">>, <<"U+1CAD", "U+10ED">>, <<"U+1CAE", "U+10EE">>, <<"U+1CAF", "U+10EF">>,
       <<"U+1CB0", "U+10F0">>, <<"U+1CB1", "U+10F1">>, <<"U+1CB2", "U+10F2">>, <<"U+1CB3", "U+10F3">>,
       <<"U+1CB4", "U+10F4">>, <<"U+1CB5", "U+10F5">>, <<"U+1CB6", "U+10F6">>, <<"U+1CB7", "U+10F7">>,
       <<"U+1CB8", "U+10F8">>, <<"U+1CB9", "U+10F9">>, <<"U+1CBA", "U+10FA">>, <<"U+1CBD", "U+10FD">>,
       <<"U+1CBE", "U+10FE">>, <<"U+1CBF", "U+10FF">>, <<"U+1E00", "U+1E01">>, <<"U+1E02", "U+1E03">>,
       <<"U+1E04", "U+1E05">>, <<"U+1E06", "U+1E07">>, <<"U+1E08", "U+1E09">>, <<"U+1E0A", "U+1E0B">>,
       <<"U+1E0C", "U+1E0D">>, <<"U+1E0E", "U+1E0F">>, <<"U+1E10", "U+1E11">>, <<"U+1E12", "U+1E13">>,
       <<"U+1E14", "U+1E15">>, <<"U+1E16", "U+1E17">>, <<"U+1E18", "U+1E19">>, <<"U+1E1A", "U+1E1B">>,
       <<"U+1E1C", "U+1E1D">>, <<"U+1E1E", "U+1E1F">>, <<"U+1E20", "U+1E21">>, <<"U+1E22", "U+1E23">>,
       <<"U+1E24", "U+1E25">>, <<"U+1E26", "U+1E27">>, <<"U+1E28", "U+1E29">>, <<"U+1E2A", "U+1E2B">>,
       <<"U+1E2C", "U+1E2D">>, <<"U+1E2E", "U+1E2F">>, <<"U+1E30", "U+1E31">>, <<"U+1E32", "U+1E33">>,
       <<"U+1E34", "U+1E35">>, <<"U+1E36", "U+1E37">>, <<"U+1E38", "U+1E39">>, <<"U+1E3A", "U+1E3B">>,
       <<"U+1E3C", "U+1E3D">>, <<"U+1E3E", "U+1E3F">>, <<"U+1E40", "U+1E41">>, <<"U+1E42", "U+1E43">>,
       <<"U+1E44", "U+1E45">>, <<"U+1E46", "U+1E47">>, <<"U+1E48", "U+1E49">>, <<"U+1E4A", "U+1E4B">>,
       <<"U+1E4C", "U+1E4D">>, <<"U+1E4E", "U+1E4F">>, <<"U+1E50", "U+1E51">>, <<"U+1E52", "U+1E53">>,
       <<"U+1E54", "U+1E55">>, <<"U+1E56", "U+1E57">>, <<"U+1E58", "U+1E59">>, <<"U+1E5A", "U+1E5B">>,
       <<"U+1E5C", "U+1E5D">>, <<"U+1E5E", "U+1E5F">>, <<"U+1E60", "U+1E61">>, <<"U+1E62", "U+1E63">>,
       <<"U+1E64", "U+1E65">>, <<"U+1E66", "U+1E67">>, <<"U+1E68", "U+1E69">>, <<"U+1E6A", "U+1E6B">>,
       <<"U+1E6C", "U+1E6D">>, <<"U+1E6E", "U+1E6F">>, <<"U+1E70", "U+1E71">>, <<"U+1E72", "U+1E73">>,
       <<"U+1E74", "U+1E75">>, <<"U+1E76", "U+1E77">>, <<"U+1E78", "U+1E79">>, <<"U+1E7A", "U+1E7B">>,
       <<"U+1E7C", "U+1E7D">>, <<"U+1E7E", "U+1E7F">>, <<"U+1E80", "U+1E81">>, <<"U+1E82", "U+1E83">>,
       <<"U+1E84", "U+1E85">>, <<"U+1E86", "U+1E87">>, <<"U+1E88", "U+1E89">>, <<"U+1E8A", "U+1E8B">>,
       <<"U+1E8C", "U+1E8D">>, <<"U+1E8E", "U+1E8F">>, <<"U+1E90", "U+1E91">>, <<"U+1E92", "U+1E93">>,
       <<"U+1E94", "U+1E95">>, <<"U+1E9E", "U+00DF">>, <<"U+1EA0", "U+1EA1">>, <<"U+1EA2", "U+1EA3">>,
       <<"U+1EA4", "U+1EA5">>, <<"U+1EA6", "U+1EA7">>, <<"U+1EA8", "U+1EA9">>, <<"U+1EAA", "U+1EAB">>,
       <<"U+1EAC", "U+1EAD">>, <<"U+1EAE", "U+1EAF">>, <<"U+1EB0", "U+1EB1">>, <<"U+1EB2", "U+1EB3">>,
       <<"U+1EB4", "U+1EB5">>, <<"U+1EB6", "U+1EB7">>, <<"U+1EB8", "U+1EB9">>, <<"U+1EBA", "U+1EBB">>,
       <<"U+1EBC", "U+1EBD">>, <<"U+1EBE", "U+1EBF">>, <<"U+1EC0", "U+1EC1">>, <<"U+1EC2", "U+1EC3">>,
       <<"U+1EC4", "U+1EC5">>, <<"U+1EC6", "U+1EC7">>, <<"U+1EC8", "U+1EC9">>, <<"U+1ECA", "U+1ECB">>,
       <<"U+1ECC", "U+1ECD">>, <<"U+1ECE", "U+1ECF">>, <<"U+1ED0", "U+1ED1">>, <<"U+1ED2", "U+1ED3">>,
       <<"U+1ED4", "U+1ED5">>, <<"U+1ED6", "U+1ED7">>, <<"U+1ED8", "U+1ED9">>, <<"U+1EDA", "U+1EDB">>,
       <<"U+1EDC", "U+1EDD">>, <<"U+1EDE", "U+1EDF">>, <<"U+1EE0", "U+1EE1">>, <<"U+1EE2", "U+1EE3">>,
       <<"U+1EE4", "U+1EE5">>, <<"U+1EE6", "U+1EE7">>, <<"U+1EE8", "U+1EE9">>, <<"U+1EEA", "U+1EEB">>,
       <<"U+1EEC", "U+1EED">>, <<"U+1EEE", "U+1EEF">>, <<"U+1EF0", "U+1EF1">>, <<"U+1EF2", "U+1EF3">>,
       <<"U+1EF4", "U+1EF5">>, <<"U+1EF6", "U+1EF7">>, <<"U+1EF8", "U+1EF9">>, <<"U+1EFA", "U+1EFB">>,
       <<"U+1EFC", "U+1EFD">>, <<"U+1EFE", "U+1EFF">>, <<"U+1F08", "U+1F00">>, <<"U+1F09", "U+1F01">>,
       <<"U+1F0A", "U+1F02">>, <<"U+1F0B", "U+1F03">>, <<"U+1F0C", "U+1F04">>, <<"U+1F0D", "U+1F05">>,
       <<"U+1F0E", "U+1F06">>, <<"U+1F0F", "U+1F07">>, <<"U+1F18", "U+1F10">>, <<"U+1F19", "U+1F11">>,
       <<"U+1F1A", "U+1F12">>, <<"U+1F1B", "U+1F13">>, <<"U+1F1C", "U+1F14">>, <<"U+1F1D", "U+1F15">>,
       <<"U+1F28", "U+1F20">>, <<"U+1F29", "U+1F21">>, <<"U+1F2A", "U+1F22">>, <<"U+1F2B", "U+1F23">>,
       <<"U+1F2C", "U+1F24">>, <<"U+1F2D", "U+1F25">>, <<"U+1F2E", "U+1F26">>, <<"U+1F2F", "U+1F27">>,
       <<"U+1F38", "U+1F30">>, <<"U+1F39", "U+1F31">>, <<"U+1F3A", "U+1F32">>, <<"U+1F3B", "U+1F33">>,
       <<"U+1F3C", "U+1F34">>, <<"U+1F3D", "U+1F35">>, <<"U+1F3E", "U+1F36">>, <<"U+1F3F", "U+1F37">>,
       <<"U+1F48", "U+1F40">>, <<"U+1F49", "U+1F41">>, <<"U+1F4A", "U+1F42">>, <<"U+1F4B", "U+1F43">>,
       <<"U+1F4C", "U+1F44">>, <<"U+1F4D", "U+1F45">>, <<"U+1F59", "U+1F51">>, <<"U+1F5B", "U+1F53">>,
       <<"U+1F5D", "U+1F55">>, <<"U+1F5F", "U+1F57">>, <<"U+1F68", "U+1F60">>, <<"U+1F69", "U+1F61">>,
       <<"U+1F6A", "U+1F62">>, <<"U+1F6B", "U+1F63">>, <<"U+1F6C", "U+1F64">>, <<"U+1F6D", "U+1F65">>,
       <<"U+1F6E", "U+1F66">>, <<"U+1F6F", "U+1F67">>, <<"U+1F88", "U+1F80">>, <<"U+1F89", "U+1F81">>,
       <<"U+1F8A", "U+1F82">>, <<"U+1F8B", "U+1F83">>, <<"U+1F8C", "U+1F84">>, <<"U+1F8D", "U+1F85">>,
       <<"U+1F8E", "U+1F86">>, <<"U+1F8F", "U+1F87">>, <<"U+1F98", "U+1F90">>, <<"U+1F99", "U+1F91">>,
       <<"U+1F9A", "U+1F92">>, <<"U+1F9B", "U+1F93">>, <<"U+1F9C", "U+1F94">>, <<"U+1F9D", "U+1F95">>,
       <<"U+1F9E", "U+1F96">>, <<"U+1F9F", "U+1F97">>, <<"U+1FA8", "U+1FA0">>, <<"U+1FA9", "U+1FA1">>,
       <<"U+1FAA", "U+1FA2">>, <<"U+1FAB", "U+1FA3">>, <<"U+1FAC", "U+1FA4">>, <<"U+1FAD", "U+1FA5">>,
       <<"U+1FAE", "U+1FA6">>, <<"U+1FAF", "U+1FA7">>, <<"U+1FB8", "U+1FB0">>, <<"U+1FB9", "U+1FB1">>,
       <<"U+1FBA", "U+1F70">>, <<"U+1FBB", "U+1F71">>, <<"U+1FBC", "U+1FB3">>, <<"U+1FC8", "U+1F72">>,
       <<"U+1FC9", "U+1F73">>, <<"U+1FCA", "U+1F74">>, <<"U+1FCB", "U+1F75">>, <<"U+1FCC", "U+1FC3">>,
       <<"U+1FD8", "U+1FD0">>, <<"U+1FD9", "U+1FD1">>, <<"U+1FDA", "U+1F76">>, <<"U+1FDB", "U+1F77">>,
       <<"U+1FE8", "U+1FE0">>, <<"U+1FE9", "U+1FE1">>, <<"U+1FEA", "U+1F7A">>, <<"U+1FEB", "U+1F7B">>,
       <<"U+1FEC", "U+1FE5">>, <<"U+1FF8", "U+1F78">>, <<"U+1FF9", "U+1F79">>, <<"U+1FFA", "U+1F7C">>,
       <<"U+1FFB", "U+1F7D">>, <<"U+1FFC", "U+1FF3">>, <<"U+2126", "U+03C9">>, <<"U+212A", "k">>,
       <<"U+212B", "U+00E5">>, <<"U+2132", "U+214E">>, <<"U+2160", "U+2170">>, <<"U+2161", "U+2171">>,
       <<"U+2162", "U+2172">>, <<"U+2163", "U+2173">>, <<"U+2164", "U+2174">>, <<"U+2165", "U+2175">>,
       <<"U+2166", "U+2176">>, <<"U+2167", "U+2177">>, <<"U+2168", "U+2178">>, <<"U+2169", "U+2179">>,
       <<"U+216A", "U+217A">>, <<"U+216B", "U+217B">>, <<"U+216C", "U+217C">>, <<"U+216D", "U+217D">>,
       <<"U+216E", "U+217E">>, <<"U+216F", "U+217F">>, <<"U+2183", "U+2184">>, <<"U+24B6", "U+24D0">>,
       <<"U+24B7", "U+24D1">>, <<"U+24B8", "U+24D2">>, <<"U+24B9", "U+24D3">>, <<"U+24BA", "U+24D4">>,
       <<"U+24BB", "U+24D5">>, <<"U+24BC", "U+24D6">>, <<"U+24BD", "U+24D7">>, <<"U+24BE", "U+24D8">>,
       <<"U+24BF", "U+24D9">>, <<"U+24C0", "U+24DA">>, <<"U+24C1", "U+24DB">>, <<"U+24C2", "U+24DC">>,
       <<"U+24C3", "U+24DD">>, <<"U+24C4", "U+24DE">>, <<"U+24C5", "U+24DF">>, <<"U+24C6", "U+24E0">>,
       <<"U+24C7", "U+24E1">>, <<"U+24C8", "U+24E2">>, <<"U+24C9", "U+24E3">>, <<"U+24CA", "U+24E4">>,
       <<"U+24CB", "U+24E5">>, <<"U+24CC", "U+24E6">>, <<"U+24CD", "U+24E7">>, <<"U+24CE", "U+24E8">>,
       <<"U+24CF", "U+24E9">>, <<"U+2C00", "U+2C30">>, <<"U+2C01", "U+2C31">>, <<"U+2C02", "U+2C32">>,
       <<"U+2C03", "U+2C33">>, <<"U+2C04", "U+2C34">>, <<"U+2C05", "U+2C35">>, <<"U+2C06", "U+2C36">>,
       <<"U+2C07", "U+2C37">>, <<"U+2C08", "U+2C38">>, <<"U+2C09", "U+2C39">>, <<"U+2C0A", "U+2C3A">>,
       <<"U+2C0B", "U+2C3B">>, <<"U+2C0C", "U+2C3C">>, <<"U+2C0D", "U+2C3D">>, <<"U+2C0E", "U+2C3E">>,
       <<"U+2C0F", "U+2C3F">>, <<"U+2C10", "U+2C40">>, <<"U+2C11", "U+2C41">>, <<"U+2C12", "U+2C42">>,
       <<"U+2C13", "U+2C43">>, <<"U+2C14", "U+2C44">>, <<"U+2C15", "U+2C45">>, <<"U+2C16", "U+2C46">>,
       <<"U+2C17", "U+2C47">>, <<"U+2C18", "U+2C48">>, <<"U+2C19", "U+2C49">>, <<"U+2C1A", "U+2C4A">>,
       <<"U+2C1B", "U+2C4B">>, <<"U+2C1C", "U+2C4C">>, <<"U+2C1D", "U+2C4D">>, <<"U+2C1E", "U+2C4E">>,
       <<"U+2C1F", "U+2C4F">>, <<"U+2C20", "U+2C50">>, <<"U+2C21", "U+2C51">>, <<"U+2C22", "U+2C52">>,
       <<"U+2C23", "U+2C53">>, <<"U+2C24", "U+2C54">>, <<"U+2C25", "U+2C55">>, <<"U+2C26", "U+2C56">>,
       <<"U+2C27", "U+2C57">>, <<"U+2C28", "U+2C58">>, <<"U+2C29", "U+2C59">>, <<"U+2C2A", "U+2C5A">>,
       <<"U+2C2B", "U+2C5B">>, <<"U+2C2C", "U+2C5C">>, <<"U+2C2D", "U+2C5D">>, <<"U+2C2E", "U+2C5E">>,
       <<"U+2C2F", "U+2C5F">>, <<"U+2C60", "U+2C61">>, <<"U+2C62", "U+026B">>, <<"U+2C63", "U+1D7D">>,
       <<"U+2C64", "U+027D">>, <<"U+2C67", "U+2C68">>, <<"U+2C69", "U+2C6A">>, <<"U+2C6B", "U+2C6C">>,
       <<"U+2C6D", "U+0251">>, <<"U+2C6E", "U+0271">>, <<"U+2C6F", "U+0250">>, <<"U+2C70", "U+0252">>,
       <<"U+2C72", "U+2C73">>, <<"U+2C75", "U+2C76">>, <<"U+2C7E", "U+023F">>, <<"U+2C7F", "U+0240">>,
       <<"U+2C80", "U+2C81">>, <<"U+2C82", "U+2C83">>, <<"U+2C84", "U+2C85">>, <<"U+2C86", "U+2C87">>,
       <<"U+2C88", "U+2C89">>, <<"U+2C8A", "U+2C8B">>, <<"U+2C8C", "U+2C8D">>, <<"U+2C8E", "U+2C8F">>,
       <<"U+2C90", "U+2C91">>, <<"U+2C92", "U+2C93">>, <<"U+2C94", "U+2C95">>, <<"U+2C96", "U+2C97">>,
       <<"U+2C98", "U+2C99">>, <<"U+2C9A", "U+2C9B">>, <<"U+2C9C", "U+2C9D">>, <<"U+2C9E", "U+2C9F">>,
       <<"U+2CA0", "U+2CA1">>, <<"U+2CA2", "U+2CA3">>, <<"U+2CA4", "U+2CA5">>, <<"U+2CA6", "U+2CA7">>,
       <<"U+2CA8", "U+2CA9">>, <<"U+2CAA", "U+2CAB">>, <<"U+2CAC", "U+2CAD">>, <<"U+2CAE", "U+2CAF">>,
       <<"U+2CB0", "U+2CB1">>, <<"U+2CB2", "U+2CB3">>, <<"U+2CB4", "U+2CB5">>, <<"U+2CB6", "U+2CB7">>,
       <<"U+2CB8", "U+2CB9">>, <<"U+2CBA", "U+2CBB">>, <<"U+2CBC", "U+2CBD">>, <<"U+2CBE", "U+2CBF">>,
       <<"U+2CC0", "U+2CC1">>, <<"U+2CC2", "U+2CC3">>, <<"U+2CC4", "U+2CC5">>, <<"U+2CC6", "U+2CC7">>,
       <<"U+2CC8", "U+2CC9">>, <<"U+2CCA", "U+2CCB">>, <<"U+2CCC", "U+2CCD">>, <<"U+2CCE", "U+2CCF">>,
       <<"U+2CD0", "U+2CD1">>, <<"U+2CD2", "U+2CD3">>, <<"U+2CD4", "U+2CD5">>, <<"U+2CD6", "U+2CD7">>,
       <<"U+2CD8", "U+2CD9">>, <<"U+2CDA", "U+2CDB">>, <<"U+2CDC", "U+2CDD">>, <<"U+2CDE", "U+2CDF">>,
       <<"U+2CE0", "U+2CE1">>, <<"U+2CE2", "U+2CE3">>, <<"U+2CEB", "U+2CEC">>, <<"U+2CED", "U+2CEE">>,
       <<"U+2CF2", "U+2CF3">>, <<"U+A640", "U+A641">>, <<"U+A642", "U+A643">>, <<"U+A644", "U+A645">>,
       <<"U+A646", "U+A647">>, <<"U+A648", "U+A649">>, <<"U+A64A", "U+A64B">>, <<"U+A64C", "U+A64D">>,
       <<"U+A64E", "U+A64F">>, <<"U+A650", "U+A651">>, <<"U+A652", "U+A653">>, <<"U+A654", "U+A655">>,
       <<"U+A656", "U+A657">>, <<"U+A658", "U+A659">>, <<"U+A65A", "U+A65B">>, <<"U+A65C", "U+A65D">>,
       <<"U+A65E", "U+A65F">>, <<"U+A660", "U+A661">>, <<"U+A662", "U+A663">>, <<"U+A664", "U+A665">>,
       <<"U+A666", "U+A667">>, <<"U+A668", "U+A669">>, <<"U+A66A", "U+A66B">>, <<"U+A66C", "U+A66D">>,
       <<"U+A680", "U+A681">>, <<"U+A682", "U+A683">>, <<"U+A684", "U+A685">>, <<"U+A686", "U+A687">>,
       <<"U+A688", "U+A689">>, <<"U+A68A", "U+A68B">>, <<"U+A68C", "U+A68D">>, <<"U+A68E", "U+A68F">>,
       <<"U+A690", "U+A691">>, <<"U+A692", "U+A693">>, <<"U+A694", "U+A695">>, <<"U+A696", "U+A697">>,
       <<"U+A698", "U+A699">>, <<"U+A69A", "U+A69B">>, <<"U+A722", "U+A723">>, <<"U+A724", "U+A725">>,
       <<"U+A726", "U+A727">>, <<"U+A728", "U+A729">>, <<"U+A72A", "U+A72B">>, <<"U+A72C", "U+A72D">>,
       <<"U+A72E", "U+A72F">>, <<"U+A732", "U+A733">>, <<"U+A734", "U+A735">>, <<"U+A736", "U+A737">>,
       <<"U+A738", "U+A739">>, <<"U+A73A", "U+A73B">>, <<"U+A73C", "U+A73D">>, <<"U+A73E", "U+A73F">>,
       <<"U+A740", "U+A741">>, <<"U+A742", "U+A743">>, <<"U+A744", "U+A745">>, <<"U+A746", "U+A747">>,
       <<"U+A748", "U+A749">>, <<"U+A74A", "U+A74B">>, <<"U+A74C", "U+A74D">>, <<"U+A74E", "U+A74F">>,
       <<"U+A750", "U+A751">>, <<"U+A752", "U+A753">>, <<"U+A754", "U+A755">>, <<"U+A756", "U+A757">>,
       <<"U+A758", "U+A759">>, <<"U+A75A", "U+A75B">>, <<"U+A75C", "U+A75D">>, <<"U+A75E", "U+A75F">>,
       <<"U+A760", "U+A761">>, <<"U+A762", "U+A763">>, <<"U+A764", "U+A765">>, <<"U+A766", "U+A767">>,
       <<"U+A768", "U+A769">>, <<"U+A76A", "U+A76B">>, <<"U+A76C", "U+A76D">>, <<"U+A76E", "U+A76F">>,
       <<"U+A779", "U+A77A">>, <<"U+A77B", "U+A77C">>, <<"U+A77D", "U+1D79">>, <<"U+A77E", "U+A77F">>,
       <<"U+A780", "U+A781">>, <<"U+A782", "U+A783">>, <<"U+A784", "U+A785">>, <<"U+A786", "U+A787">>,
       <<"U+A78B", "U+A78C">>, <<"U+A78D", "U+0265">>, <<"U+A790", "U+A791">>, <<"U+A792", "U+A793">>,
       <<"U+A796", "U+A797">>, <<"U+A798", "U+A799">>, <<"U+A79A", "U+A79B">>, <<"U+A79C", "U+A79D">>,
       <<"U+A79E", "U+A79F">>, <<"U+A7A0", "U+A7A1">>, <<"U+A7A2", "U+A7A3">>, <<"U+A7A4", "U+A7A5">>,
       <<"U+A7A6", "U+A7A7">>, <<"U+A7A8", "U+A7A9">>, <<"U+A7AA", "U+0266">>, <<"U+A7AB", "U+025C">>,
       <<"U+A7AC", "U+0261">>, <<"U+A7AD", "U+026C">>, <<"U+A7AE", "U+026A">>, <<"U+A7B0", "U+029E">>,
       <<"U+A7B1", "U+0287">>, <<"U+A7B2", "U+029D">>, <<"U+A7B3", "U+AB53">>, <<"U+A7B4", "U+A7B5">>,
       <<"U+A7B6", "U+A7B7">>, <<"U+A7B8", "U+A7B9">>, <<"U+A7BA", "U+A7BB">>, <<"U+A7BC", "U+A7BD">>,
       <<"U+A7BE", "U+A7BF">>, <<"U+A7C0", "U+A7C1">>, <<"U+A7C2", "U+A7C3">>, <<"U+A7C4", "U+A794">>,
       <<"U+A7C5", "U+0282">>, <<"U+A7C6", "U+1D8E">>, <<"U+A7C7", "U+A7C8">>, <<"U+A7C9", "U+A7CA">>,
       <<"U+A7D0", "U+A7D1">>, <<"U+A7D6", "U+A7D7">>, <<"U+A7D8", "U+A7D9">>, <<"U+A7F5", "U+A7F6">>,
       <<"U+FF21", "U+FF41">>, <<"U+FF22", "U+FF42">>, <<"U+FF23", "U+FF43">>, <<"U+FF24", "U+FF44">>,
       <<"U+FF25", "U+FF45">>, <<"U+FF26", "U+FF46">>, <<"U+FF27", "U+FF47">>, <<"U+FF28", "U+FF48">>,
       <<"U+FF29", "U+FF49">>, <<"U+FF2A", "U+FF4A">>, <<"U+FF2B", "U+FF4B">>, <<"U+FF2C", "U+FF4C">>,
       <<"U+FF2D", "U+FF4D">>, <<"U+FF2E", "U+FF4E">>, <<"U+FF2F", "U+FF4F">>, <<"U+FF30", "U+FF50">>,
       <<"U+FF31", "U+FF51">>, <<"U+FF32", "U+FF52">>, <<"U+FF33", "U+FF53">>, <<"U+FF34", "U+FF54">>,
       <<"U+FF35", "U+FF55">>, <<"U+FF36", "U+FF56">>, <<"U+FF37", "U+FF57">>, <<"U+FF38", "U+FF58">>,
       <<"U+FF39", "U+FF59">>, <<"U+FF3A", "U+FF5A">>, <<"U+10400", "U+10428">>, <<"U+10401", "U+10429">>,
       <<"U+10402", "U+1042A">>, <<"U+10403", "U+1042B">>, <<"U+10404", "U+1042C">>, <<"U+10405", "U+1042D">>,
       <<"U+10406", "U+1042E">>, <<"U+10407", "U+1042F">>, <<"U+10408", "U+10430">>, <<"U+10409", "U+10431">>,
       <<"U+1040A", "U+10432">>, <<"U+1040B", "U+10433">>, <<"U+1040C", "U+10434">>, <<"U+1040D", "U+10435">>,
       <<"U+1040E", "U+10436">>, <<"U+1040F", "U+10437">>, <<"U+10410", "U+10438">>, <<"U+10411", "U+10439">>,
       <<"U+10412", "U+1043A">>, <<"U+10413", "U+1043B">>, <<"U+10414", "U+1043C">>, <<"U+10415", "U+1043D">>,
       <<"U+10416", "U+1043E">>, <<"U+10417", "U+1043F">>, <<"U+10418", "U+10440">>, <<"U+10419", "U+10441">>,
       <<"U+1041A", "U+10442">>, <<"U+1041B", "U+10443">>, <<"U+1041C", "U+10444">>, <<"U+1041D", "U+10445">>,
       <<"U+1041E", "U+10446">>, <<"U+1041F", "U+10447">>, <<"U+10420", "U+10448">>, <<"U+10421", "U+10449">>,
       <<"U+10422", "U+1044A">>, <<"U+10423", "U+1044B">>, <<"U+10424", "U+1044C">>, <<"U+10425", "U+1044D">>,
       <<"U+10426", "U+1044E">>, <<"U+10427", "U+1044F">>, <<"U+104B0", "U+104D8">>, <<"U+104B1", "U+104D9">>,
       <<"U+104B2", "U+104DA">>, <<"U+104B3", "U+104DB">>, <<"U+104B4", "U+104DC">>, <<"U+104B5", "U+104DD">>,
       <<"U+104B6", "U+104DE">>, <<"U+104B7", "U+104DF">>, <<"U+104B8", "U+104E0">>, <<"U+104B9", "U+104E1">>,
       <<"U+104BA", "U+104E2">>, <<"U+104BB", "U+104E3">>, <<"U+104BC", "U+104E4">>, <<"U+104BD", "U+104E5">>,
       <<"U+104BE", "U+104E6">>, <<"U+104BF", "U+104E7">>, <<"U+104C0", "U+104E8">>, <<"U+104C1", "U+104E9">>,
       <<"U+104C2", "U+104EA">>, <<"U+104C3", "U+104EB">>, <<"U+104C4", "U+104EC">>, <<"U+104C5", "U+104ED">>,
       <<"U+104C6", "U+104EE">>, <<"U+104C7", "U+104EF">>, <<"U+104C8", "U+104F0">>, <<"U+104C9", "U+104F1">>,
       <<"U+104CA", "U+104F2">>, <<"U+104CB", "U+104F3">>, <<"U+104CC", "U+104F4">>, <<"U+104CD", "U+104F5">>,
       <<"U+104CE", "U+104F6">>, <<"U+104CF", "U+104F7">>, <<"U+104D0", "U+104F8">>, <<"U+104D1", "U+104F9">>,
       <<"U+104D2", "U+104FA">>, <<"U+104D3", "U+104FB">>, <<"U+10570", "U+10597">>, <<"U+10571", "U+10598">>,
       <<"U+10572", "U+10599">>, <<"U+10573", "U+1059A">>, <<"U+10574", "U+1059B">>, <<"U+10575", "U+1059C">>,
       <<"U+10576", "U+1059D">>, <<"U+10577", "U+1059E">>, <<"U+10578", "U+1059F">>, <<"U+10579", "U+105A0">>,
       <<"U+1057A", "U+105A1">>, <<"U+1057C", "U+105A3">>, <<"U+1057D", "U+105A4">>, <<"U+1057E", "U+105A5">>,
       <<"U+1057F", "U+105A6">>, <<"U+10580", "U+105A7">>, <<"U+10581", "U+105A8">>, <<"U+10582", "U+105A9">>,
       <<"U+10583", "U+105AA">>, <<"U+10584", "U+105AB">>, <<"U+10585", "U+105AC">>, <<"U+10586", "U+105AD">>,
       <<"U+10587", "U+105AE">>, <<"U+10588", "U+105AF">>, <<"U+10589", "U+105B0">>, <<"U+1058A", "U+105B1">>,
       <<"U+1058C", "U+105B3">>, <<"U+1058D", "U+105B4">>, <<"U+1058E", "U+105B5">>, <<"U+1058F", "U+105B6">>,
       <<"U+10590", "U+105B7">>, <<"U+10591", "U+105B8">>, <<"U+10592", "U+105B9">>, <<"U+10594", "U+105BB">>,
       <<"U+10595", "U+105BC">>, <<"U+10C80", "U+10CC0">>, <<"U+10C81", "U+10CC1">>, <<"U+10C82", "U+10CC2">>,
       <<"U+10C83", "U+10CC3">>, <<"U+10C84", "U+10CC4">>, <<"U+10C85", "U+10CC5">>, <<"U+10C86", "U+10CC6">>,
       <<"U+10C87", "U+10CC7">>, <<"U+10C88", "U+10CC8">>, <<"U+10C89", "U+10CC9">>, <<"U+10C8A", "U+10CCA">>,
       <<"U+10C8B", "U+10CCB">>, <<"U+10C8C", "U+10CCC">>, <<"U+10C8D", "U+10CCD">>, <<"U+10C8E", "U+10CCE">>,
       <<"U+10C8F", "U+10CCF">>, <<"U+10C90", "U+10CD0">>, <<"U+10C91", "U+10CD1">>, <<"U+10C92", "U+10CD2">>,
       <<"U+10C93", "U+10CD3">>, <<"U+10C94", "U+10CD4">>, <<"U+10C95", "U+10CD5">>, <<"U+10C96", "U+10CD6">>,
       <<"U+10C97", "U+10CD7">>, <<"U+10C98", "U+10CD8">>, <<"U+10C99", "U+10CD9">>, <<"U+10C9A", "U+10CDA">>,
       <<"U+10C9B", "U+10CDB">>, <<"U+10C9C", "U+10CDC">>, <<"U+10C9D", "U+10CDD">>, <<"U+10C9E", "U+10CDE">>,
       <<"U+10C9F", "U+10CDF">>, <<"U+10CA0", "U+10CE0">>, <<"U+10CA1", "U+10CE1">>, <<"U+10CA2", "U+10CE2">>,
       <<"U+10CA3", "U+10CE3">>, <<"U+10CA4", "U+10CE4">>, <<"U+10CA5", "U+10CE5">>, <<"U+10CA6", "U+10CE6">>,
       <<"U+10CA7", "U+10CE7">>, <<"U+10CA8", "U+10CE8">>, <<"U+10CA9", "U+10CE9">>, <<"U+10CAA", "U+10CEA">>,
       <<"U+10CAB", "U+10CEB">>, <<"U+10CAC", "U+10CEC">>, <<"U+10CAD", "U+10CED">>, <<"U+10CAE", "U+10CEE">>,
       <<"U+10CAF", "U+10CEF">>, <<"U+10CB0", "U+10CF0">>, <<"U+10CB1", "U+10CF1">>, <<"U+10CB2", "U+10CF2">>,
       <<"U+118A0", "U+118C0">>, <<"U+118A1", "U+118C1">>, <<"U+118A2", "U+118C2">>, <<"U+118A3", "U+118C3">>,
       <<"U+118A4", "U+118C4">>, <<"U+118A5", "U+118C5">>, <<"U+118A6", "U+118C6">>, <<"U+118A7", "U+118C7">>,
       <<"U+118A8", "U+118C8">>, <<"U+118A9", "U+118C9">>, <<"U+118AA", "U+118CA">>, <<"U+118AB", "U+118CB">>,
       <<"U+118AC", "U+118CC">>, <<"U+118AD", "U+118CD">>, <<"U+118AE", "U+118CE">>, <<"U+118AF", "U+118CF">>,
       <<"U+118B0", "U+118D0">>, <<"U+118B1", "U+118D1">>, <<"U+118B2", "U+118D2">>, <<"U+118B3", "U+118D3">>,
       <<"U+118B4", "U+118D4">>, <<"U+118B5", "U+118D5">>, <<"U+118B6", "U+118D6">>, <<"U+118B7", "U+118D7">>,
       <<"U+118B8", "U+118D8">>, <<"U+118B9", "U+118D9">>, <<"U+118BA", "U+118DA">>, <<"U+118BB", "U+118DB">>,
       <<"U+118BC", "U+118DC">>, <<"U+118BD", "U+118DD">>, <<"U+118BE", "U+118DE">>, <<"U+118BF", "U+118DF">>,
       <<"U+16E40", "U+16E60">>, <<"U+16E41", "U+16E61">>, <<"U+16E42", "U+16E62">>, <<"U+16E43", "U+16E63">>,
       <<"U+16E44", "U+16E64">>, <<"U+16E45", "U+16E65">>, <<"U+16E46", "U+16E66">>, <<"U+16E47", "U+16E67">>,
       <<"U+16E48", "U+16E68">>, <<"U+16E49", "U+16E69">>, <<"U+16E4A", "U+16E6A">>, <<"U+16E4B", "U+16E6B">>,
       <<"U+16E4C", "U+16E6C">>, <<"U+16E4D", "U+16E6D">>, <<"U+16E4E", "U+16E6E">>, <<"U+16E4F", "U+16E6F">>,
       <<"U+16E50", "U+16E70">>, <<"U+16E51", "U+16E71">>, <<"U+16E52", "U+16E72">>, <<"U+16E53", "U+16E73">>,
       <<"U+16E54", "U+16E74">>, <<"U+16E55", "U+16E75">>, <<"U+16E56", "U+16E76">>, <<"U+16E57", "U+16E77">>,
       <<"U+16E58", "U+16E78">>, <<"U+16E59", "U+16E79">>, <<"U+16E5A", "U+16E7A">>, <<"U+16E5B", "U+16E7B">>,
       <<"U+16E5C", "U+16E7C">>, <<"U+16E5D", "U+16E7D">>, <<"U+16E5E", "U+16E7E">>, <<"U+16E5F", "U+16E7F">>,
       <<"U+1E900", "U+1E922">>, <<"U+1E901", "U+1E923">>, <<"U+1E902", "U+1E924">>, <<"U+1E903", "U+1E925">>,
       <<"U+1E904", "U+1E926">>, <<"U+1E905", "U+1E927">>, <<"U+1E906", "U+1E928">>, <<"U+1E907", "U+1E929">>,
       <<"U+1E908", "U+1E92A">>, <<"U+1E909", "U+1E92B">>, <<"U+1E90A", "U+1E92C">>, <<"U+1E90B", "U+1E92D">>,
       <<"U+1E90C", "U+1E92E">>, <<"U+1E90D", "U+1E92F">>, <<"U+1E90E", "U+1E930">>, <<"U+1E90F", "U+1E931">>,
       <<"U+1E910", "U+1E932">>, <<"U+1E911", "U+1E933">>, <<"U+1E912", "U+1E934">>, <<"U+1E913", "U+1E935">>,
       <<"U+1E914", "U+1E936">>, <<"U+1E915", "U+1E937">>, <<"U+1E916", "U+1E938">>, <<"U+1E917", "U+1E939">>,
       <<"U+1E918", "U+1E93A">>, <<"U+1E919", "U+1E93B">>, <<"U+1E91A", "U+1E93C">>, <<"U+1E91B", "U+1E93D">>,
       <<"U+1E91C", "U+1E93E">>, <<"U+1E91D", "U+1E93F">>, <<"U+1E91E", "U+1E940">>, <<"U+1E91F", "U+1E941">>,
       <<"U+1E920", "U+1E942">>, <<"U+1E921", "U+1E943">> >>
\* 'I' with a dot above, which str.lower changes into two characters: 'i' and
\* a combining dot above
DottedCapitalI == "U+0130"

\* c.lower() of a character beyond ASCII, by the table of cased characters
lower_beyond_ascii(c, cased) ==
    LET found == {n \in 1..Len(cased) : cased[n][1] = c}
    IN  IF found = {} THEN <<c>> ELSE <<cased[CHOOSE n \in found : TRUE][2]>>

\* c.lower() of one character
lower_char(c) ==
    IF c \in Uppers
    THEN <<LowerAlphabet[CHOOSE n \in 1..Len(UpperAlphabet) :
                             UpperAlphabet[n] = c]>>
    ELSE IF c = DottedCapitalI THEN <<"i", "U+0307">>
    ELSE lower_beyond_ascii(c, CasedCharacters)

\* the characters beyond ASCII with the Unicode property Cased, and those with
\* Case_Ignorable, as ranges of code points
CasedRanges ==
    << <<170, 170>>, <<181, 181>>, <<186, 186>>, <<192, 214>>, <<216, 246>>,
       <<248, 442>>, <<444, 447>>, <<452, 659>>, <<661, 696>>, <<704, 705>>,
       <<736, 740>>, <<837, 837>>, <<880, 883>>, <<886, 887>>, <<890, 893>>,
       <<895, 895>>, <<902, 902>>, <<904, 906>>, <<908, 908>>, <<910, 929>>,
       <<931, 1013>>, <<1015, 1153>>, <<1162, 1327>>, <<1329, 1366>>,
       <<1376, 1416>>, <<4256, 4293>>, <<4295, 4295>>, <<4301, 4301>>,
       <<4304, 4346>>, <<4349, 4351>>, <<5024, 5109>>, <<5112, 5117>>,
       <<7296, 7304>>, <<7312, 7354>>, <<7357, 7359>>, <<7424, 7615>>,
       <<7680, 7957>>, <<7960, 7965>>, <<7968, 8005>>, <<8008, 8013>>,
       <<8016, 8023>>, <<8025, 8025>>, <<8027, 8027>>, <<8029, 8029>>,
       <<8031, 8061>>, <<8064, 8116>>, <<8118, 8124>>, <<8126, 8126>>,
       <<8130, 8132>>, <<8134, 8140>>, <<8144, 8147>>, <<8150, 8155>>,
       <<8160, 8172>>, <<8178, 8180>>, <<8182, 8188>>, <<8305, 8305>>,
       <<8319, 8319>>, <<8336, 8348>>, <<8450, 8450>>, <<8455, 8455>>,
       <<8458, 8467>>, <<8469, 8469>>, <<8473, 8477>>, <<8484, 8484>>,
       <<8486, 8486>>, <<8488, 8488>>, <<8490, 8493>>, <<8495, 8500>>,
       <<8505, 8505>>, <<8508, 8511>>, <<8517, 8521>>, <<8526, 8526>>,
       <<8544, 8575>>, <<8579, 8580>>, <<9398, 9449>>, <<11264, 11492>>,
       <<11499, 11502>>, <<11506, 11507>>, <<11520, 11557>>,
       <<11559, 11559>>, <<11565, 11565>>, <<42560, 42605>>,
       <<42624, 42653>>, <<42786, 42887>>, <<42891, 42894>>,
       <<42896, 42954>>, <<42960, 42961>>, <<42963, 42963>>,
       <<42965, 42969>>, <<42997, 42998>>, <<43000, 43002>>,
       <<43824, 43866>>, <<43868, 43880>>, <<43888, 43967>>,
       <<64256, 64262>>, <<64275, 64279>>, <<65313, 65338>>,
       <<65345, 65370>>, <<66560, 66639>>, <<66736, 66771>>,
       <<66776, 66811>>, <<66928, 66938>>, <<66940, 66954>>,
       <<66956, 66962>>, <<66964, 66965>>, <<66967, 66977>>,
       <<66979, 66993>>, <<66995, 67001>>, <<67003, 67004>>,
       <<67456, 67456>>, <<67459, 67461>>, <<67463, 67504>>,
       <<67506, 67514>>, <<68736, 68786>>, <<68800, 68850>>,
       <<71840, 71903>>, <<93760, 93823>>, <<119808, 119892>>,
       <<119894, 119964>>, <<119966, 119967>>, <<119970, 119970>>,
       <<119973, 119974>>, <<119977, 119980>>, <<119982, 119993>>,
       <<119995, 119995>>, <<119997, 120003>>, <<120005, 120069>>,
       <<120071, 120074>>, <<120077, 120084>>, <<120086, 120092>>,
       <<120094, 120121>>, <<120123, 120126>>, <<120128, 120132>>,
       <<120134, 120134>>, <<120138, 120144>>, <<120146, 120485>>,
       <<120488, 120512>>, <<120514, 120538>>, <<120540, 120570>>,
       <<120572, 120596>>, <<120598, 120628>>, <<120630, 120654>>,
       <<120656, 120686>>, <<120688, 120712>>, <<120714, 120744>>,
       <<120746, 120770>>, <<120772, 120779>>, <<122624, 122633>>,
       <<122635, 122654>>, <<125184, 125251>>, <<127280, 127305>>,
       <<127312, 127337>>, <<127344, 127369>> >>
CaseIgnorableRanges ==
    << <<168, 168>>, <<173, 173>>, <<175, 175>>, <<180, 180>>, <<183, 184>>,
       <<688, 879>>, <<884, 885>>, <<890, 890>>, <<900, 901>>, <<903, 903>>,
       <<1155, 1161>>, <<1369, 1369>>, <<1375, 1375>>, <<1425, 1469>>,
       <<1471, 1471>>, <<1473, 1474>>, <<1476, 1477>>, <<1479, 1479>>,
       <<1524, 1524>>, <<1536, 1541>>, <<1552, 1562>>, <<1564, 1564>>,
       <<1600, 1600>>, <<1611, 1631>>, <<1648, 1648>>, <<1750, 1757>>,
       <<1759, 1768>>, <<1770, 1773>>, <<1807, 1807>>, <<1809, 1809>>,
       <<1840, 1866>>, <<1958, 1968>>, <<2027, 2037>>, <<2042, 2042>>,
       <<2045, 2045>>, <<2070, 2093>>, <<2137, 2139>>, <<2184, 2184>>,
       <<2192, 2193>>, <<2200, 2207>>, <<2249, 2306>>, <<2362, 2362>>,
       <<2364, 2364>>, <<2369, 2376>>, <<2381, 2381>>, <<2385, 2391>>,
       <<2402, 2403>>, <<2417, 2417>>, <<2433, 2433>>, <<2492, 2492>>,
       <<2497, 2500>>, <<2509, 2509>>, <<2530, 2531>>, <<2558, 2558>>,
       <<2561, 2562>>, <<2620, 2620>>, <<2625, 2626>>, <<2631, 2632>>,
       <<2635, 2637>>, <<2641, 2641>>, <<2672, 2673>>, <<2677, 2677>>,
       <<2689, 2690>>, <<2748, 2748>>, <<2753, 2757>>, <<2759, 2760>>,
       <<2765, 2765>>, <<2786, 2787>>, <<2810, 2815>>, <<2817, 2817>>,
       <<2876, 2876>>, <<2879, 2879>>, <<2881, 2884>>, <<2893, 2893>>,
       <<2901, 2902>>, <<2914, 2915>>, <<2946, 2946>>, <<3008, 3008>>,
       <<3021, 3021>>, <<3072, 3072>>, <<3076, 3076>>, <<3132, 3132>>,
       <<3134, 3136>>, <<3142, 3144>>, <<3146, 3149>>, <<3157, 3158>>,
       <<3170, 3171>>, <<3201, 3201>>, <<3260, 3260>>, <<3263, 3263>>,
       <<3270, 3270>>, <<3276, 3277>>, <<3298, 3299>>, <<3328, 3329>>,
       <<3387, 3388>>, <<3393, 3396>>, <<3405, 3405>>, <<3426, 3427>>,
       <<3457, 3457>>, <<3530, 3530>>, <<3538, 3540>>, <<3542, 3542>>,
       <<3633, 3633>>, <<3636, 3642>>, <<3654, 3662>>, <<3761, 3761>>,
       <<3764, 3772>>, <<3782, 3782>>, <<3784, 3789>>, <<3864, 3865>>,
       <<3893, 3893>>, <<3895, 3895>>, <<3897, 3897>>, <<3953, 3966>>,
       <<3968, 3972>>, <<3974, 3975>>, <<3981, 3991>>, <<3993, 4028>>,
       <<4038, 4038>>, <<4141, 4144>>, <<4146, 4151>>, <<4153, 4154>>,
       <<4157, 4158>>, <<4184, 4185>>, <<4190, 4192>>, <<4209, 4212>>,
       <<4226, 4226>>, <<4229, 4230>>, <<4237, 4237>>, <<4253, 4253>>,
       <<4348, 4348>>, <<4957, 4959>>, <<5906, 5908>>, <<5938, 5939>>,
       <<5970, 5971>>, <<6002, 6003>>, <<6068, 6069>>, <<6071, 6077>>,
       <<6086, 6086>>, <<6089, 6099>>, <<6103, 6103>>, <<6109, 6109>>,
       <<6155, 6159>>, <<6211, 6211>>, <<6277, 6278>>, <<6313, 6313>>,
       <<6432, 6434>>, <<6439, 6440>>, <<6450, 6450>>, <<6457, 6459>>,
       <<6679, 6680>>, <<6683, 6683>>, <<6742, 6742>>, <<6744, 6750>>,
       <<6752, 6752>>, <<6754, 6754>>, <<6757, 6764>>, <<6771, 6780>>,
       <<6783, 6783>>, <<6823, 6823>>, <<6832, 6862>>, <<6912, 6915>>,
       <<6964, 6964>>, <<6966, 6970>>, <<6972, 6972>>, <<6978, 6978>>,
       <<7019, 7027>>, <<7040, 7041>>, <<7074, 7077>>, <<7080, 7081>>,
       <<7083, 7085>>, <<7142, 7142>>, <<7144, 7145>>, <<7149, 7149>>,
       <<7151, 7153>>, <<7212, 7219>>, <<7222, 7223>>, <<7288, 7293>>,
       <<7376, 7378>>, <<7380, 7392>>, <<7394, 7400>>, <<7405, 7405>>,
       <<7412, 7412>>, <<7416, 7417>>, <<7468, 7530>>, <<7544, 7544>>,
       <<7579, 7679>>, <<8125, 8125>>, <<8127, 8129>>, <<8141, 8143>>,
       <<8157, 8159>>, <<8173, 8175>>, <<8189, 8190>>, <<8203, 8207>>,
       <<8216, 8217>>, <<8228, 8228>>, <<8231, 8231>>, <<8234, 8238>>,
       <<8288, 8292>>, <<8294, 8303>>, <<8305, 8305>>, <<8319, 8319>>,
       <<8336, 8348>>, <<8400, 8432>>, <<11388, 11389>>, <<11503, 11505>>,
       <<11631, 11631>>, <<11647, 11647>>, <<11744, 11775>>,
       <<11823, 11823>>, <<12293, 12293>>, <<12330, 12333>>,
       <<12337, 12341>>, <<12347, 12347>>, <<12441, 12446>>,
       <<12540, 12542>>, <<40981, 40981>>, <<42232, 42237>>,
       <<42508, 42508>>, <<42607, 42610>>, <<42612, 42621>>,
       <<42623, 42623>>, <<42652, 42655>>, <<42736, 42737>>,
       <<42752, 42785>>, <<42864, 42864>>, <<42888, 42890>>,
       <<42994, 42996>>, <<43000, 43001>>, <<43010, 43010>>,
       <<43014, 43014>>, <<43019, 43019>>, <<43045, 43046>>,
       <<43052, 43052>>, <<43204, 43205>>, <<43232, 43249>>,
       <<43263, 43263>>, <<43302, 43309>>, <<43335, 43345>>,
       <<43392, 43394>>, <<43443, 43443>>, <<43446, 43449>>,
       <<43452, 43453>>, <<43471, 43471>>, <<43493, 43494>>,
       <<43561, 43566>>, <<43569, 43570>>, <<43573, 43574>>,
       <<43587, 43587>>, <<43596, 43596>>, <<43632, 43632>>,
       <<43644, 43644>>, <<43696, 43696>>, <<43698, 43700>>,
       <<43703, 43704>>, <<43710, 43711>>, <<43713, 43713>>,
       <<43741, 43741>>, <<43756, 43757>>, <<43763, 43764>>,
       <<43766, 43766>>, <<43867, 43871>>, <<43881, 43883>>,
       <<44005, 44005>>, <<44008, 44008>>, <<44013, 44013>>,
       <<64286, 64286>>, <<64434, 64450>>, <<65024, 65039>>,
       <<65043, 65043>>, <<65056, 65071>>, <<65106, 65106>>,
       <<65109, 65109>>, <<65279, 65279>>, <<65287, 65287>>,
       <<65294, 65294>>, <<65306, 65306>>, <<65342, 65342>>,
       <<65344, 65344>>, <<65392, 65392>>, <<65438, 65439>>,
       <<65507, 65507>>, <<65529, 65531>>, <<66045, 66045>>,
       <<66272, 66272>>, <<66422, 66426>>, <<67456, 67461>>,
       <<67463, 67504>>, <<67506, 67514>>, <<68097, 68099>>,
       <<68101, 68102>>, <<68108, 68111>>, <<68152, 68154>>,
       <<68159, 68159>>, <<68325, 68326>>, <<68900, 68903>>,
       <<69291, 69292>>, <<69446, 69456>>, <<69506, 69509>>,
       <<69633, 69633>>, <<69688, 69702>>, <<69744, 69744>>,
       <<69747, 69748>>, <<69759, 69761>>, <<69811, 69814>>,
       <<69817, 69818>>, <<69821, 69821>>, <<69826, 69826>>,
       <<69837, 69837>>, <<69888, 69890>>, <<69927, 69931>>,
       <<69933, 69940>>, <<70003, 70003>>, <<70016, 70017>>,
       <<70070, 70078>>, <<70089, 70092>>, <<70095, 70095>>,
       <<70191, 70193>>, <<70196, 70196>>, <<70198, 70199>>,
       <<70206, 70206>>, <<70367, 70367>>, <<70371, 70378>>,
       <<70400, 70401>>, <<70459, 70460>>, <<70464, 70464>>,
       <<70502, 70508>>, <<70512, 70516>>, <<70712, 70719>>,
       <<70722, 70724>>, <<70726, 70726>>, <<70750, 70750>>,
       <<70835, 70840>>, <<70842, 70842>>, <<70847, 70848>>,
       <<70850, 70851>>, <<71090, 71093>>, <<71100, 71101>>,
       <<71103, 71104>>, <<71132, 71133>>, <<71219, 71226>>,
       <<71229, 71229>>, <<71231, 71232>>, <<71339, 71339>>,
       <<71341, 71341>>, <<71344, 71349>>, <<71351, 71351>>,
       <<71453, 71455>>, <<71458, 71461>>, <<71463, 71467>>,
       <<71727, 71735>>, <<71737, 71738>>, <<71995, 71996>>,
       <<71998, 71998>>, <<72003, 72003>>, <<72148, 72151>>,
       <<72154, 72155>>, <<72160, 72160>>, <<72193, 72202>>,
       <<72243, 72248>>, <<72251, 72254>>, <<72263, 72263>>,
       <<72273, 72278>>, <<72281, 72283>>, <<72330, 72342>>,
       <<72344, 72345>>, <<72752, 72758>>, <<72760, 72765>>,
       <<72767, 72767>>, <<72850, 72871>>, <<72874, 72880>>,
       <<72882, 72883>>, <<72885, 72886>>, <<73009, 73014>>,
       <<73018, 73018>>, <<73020, 73021>>, <<73023, 73029>>,
       <<73031, 73031>>, <<73104, 73105>>, <<73109, 73109>>,
       <<73111, 73111>>, <<73459, 73460>>, <<78896, 78904>>,
       <<92912, 92916>>, <<92976, 92982>>, <<92992, 92995>>,
       <<94031, 94031>>, <<94095, 94111>>, <<94176, 94177>>,
       <<94179, 94180>>, <<110576, 110579>>, <<110581, 110587>>,
       <<110589, 110590>>, <<113821, 113822>>, <<113824, 113827>>,
       <<118528, 118573>>, <<118576, 118598>>, <<119143, 119145>>,
       <<119155, 119170>>, <<119173, 119179>>, <<119210, 119213>>,
       <<119362, 119364>>, <<121344, 121398>>, <<121403, 121452>>,
       <<121461, 121461>>, <<121476, 121476>>, <<121499, 121503>>,
       <<121505, 121519>>, <<122880, 122886>>, <<122888, 122904>>,
       <<122907, 122913>>, <<122915, 122916>>, <<122918, 122922>>,
       <<123184, 123197>>, <<123566, 123566>>, <<123628, 123631>>,
       <<125136, 125142>>, <<125252, 125259>>, <<127995, 127999>>,
       <<917505, 917505>>, <<917536, 917631>>, <<917760, 917999>> >>
in_ranges(n, ranges) ==
    \E i \in 1..Len(ranges) : ranges[i][1] <= n /\ n <= ranges[i][2]
is_cased(c) ==
    IF is_beyond_ascii(c) THEN in_ranges(code_point(c), CasedRanges)
    ELSE c \in Uppers \cup Lowers
is_case_ignorable(c) ==
    IF is_beyond_ascii(c) THEN in_ranges(code_point(c), CaseIgnorableRanges)
    ELSE c \in {"'", ".", ":", "^", GRAVE}

CapitalSigma == "U+03A3"
SmallSigma == "U+03C3"
FinalSigma == "U+03C2"
\* the nearest position from i, going by step, whose character is not
\* case-ignorable; 0 or Len(s) + 1 when there is none
RECURSIVE skip_case_ignorable(_, _, _)
skip_case_ignorable(s, i, step) ==
    IF i < 1 \/ i > Len(s) \/ ~ is_case_ignorable(s[i]) THEN i
    ELSE skip_case_ignorable(s, i + step, step)
\* whether the capital sigma at s[i] ends a word: a cased character before
\* it and none after it, case-ignorable characters skipped
final_sigma(s, i) ==
    /\ bind(skip_case_ignorable(s, i - 1, -1), LAMBDA before :
            before >= 1 /\ is_cased(s[before]))
    /\ bind(skip_case_ignorable(s, i + 1, 1), LAMBDA after :
            after > Len(s) \/ ~ is_cased(s[after]))
lower_at(s, i) ==
    IF s[i] = CapitalSigma
    THEN <<IF final_sigma(s, i) THEN FinalSigma ELSE SmallSigma>>
    ELSE lower_char(s[i])
\* str.lower()
lower(s) == join_empty([i \in 1..Len(s) |-> lower_at(s, i)])

\* calendar.month_name, lower-cased; calendar.month_abbr is the first three
\* letters of each
month_name ==
    << <<"j", "a", "n", "u", "a", "r", "y">>,
       <<"f", "e", "b", "r", "u", "a", "r", "y">>,
       <<"m", "a", "r", "c", "h">>,
       <<"a", "p", "r", "i", "l">>,
       <<"m", "a", "y">>,
       <<"j", "u", "n", "e">>,
       <<"j", "u", "l", "y">>,
       <<"a", "u", "g", "u", "s", "t">>,
       <<"s", "e", "p", "t", "e", "m", "b", "e", "r">>,
       <<"o", "c", "t", "o", "b", "e", "r">>,
       <<"n", "o", "v", "e", "m", "b", "e", "r">>,
       <<"d", "e", "c", "e", "m", "b", "e", "r">> >>
month_abbr == [m \in 1..Len(month_name) |-> SubSeq(month_name[m], 1, 3)]

is_leap(year) ==
    year % 4 = 0 /\ (year % 100 # 0 \/ year % 400 = 0)
days_in_month(year, month) ==
    IF month = 2 THEN (IF is_leap(year) THEN 29 ELSE 28)
    ELSE IF month \in {4, 6, 9, 11} THEN 30 ELSE 31
RECURSIVE days_before_month(_, _)
days_before_month(year, month) ==
    IF month = 1 THEN 0
    ELSE days_before_month(year, month - 1) + days_in_month(year, month - 1)
\* date(year, month, day).toordinal()
toordinal(year, month, day) ==
    LET y == year - 1
    IN  y * 365 + y \div 4 - y \div 100 + y \div 400
        + days_before_month(year, month) + day

\* the fields datetime.strptime starts from
default_fields == [Y |-> 1900, m |-> 1, d |-> 1, H |-> 0, M |-> 0, S |-> 0, f |-> 0]

\* the digit counts and the values the pattern of a numeric directive takes,
\* and the places of the digits the pattern names ([0-9], 3[0-1], [0-5]):
\* these take the ASCII digit only, the \d of the pattern any decimal digit
\* (%Y is \d\d\d\d, %d is 3[0-1]|[1-2]\d|0[1-9]|[1-9]| [1-9], %H is
\* 2[0-3]|[0-1]\d|\d, %M is [0-5]\d|\d, %S is 6[0-1]|[0-5]\d|\d)
directive_widths(item) ==
    CASE item = "%Y" -> {4}
      [] item = "%f" -> 1..6
      [] OTHER -> {1, 2}
directive_values(item) ==
    CASE item = "%Y" -> 0..9999
      [] item = "%m" -> 1..12
      [] item = "%d" -> 1..31
      [] item = "%H" -> 0..23
      [] item = "%M" -> 0..59
      [] item = "%S" -> 0..61
      [] OTHER -> 0..999999
directive_ascii(item, run) ==
    CASE item = "%Y" -> {}
      [] item \in {"%m", "%f"} -> 1..Len(run)
      [] item = "%d" ->
            IF Len(run) = 2 /\ run[1] \in {"1", "2"} THEN {1} ELSE 1..Len(run)
      [] item = "%H" ->
            IF Len(run) = 2
            THEN (IF run[1] \in {"0", "1"} THEN {1} ELSE {1, 2})
            ELSE {}
      [] item = "%M" -> IF Len(run) = 2 THEN {1} ELSE {}
      [] OTHER ->
            IF Len(run) = 2 THEN (IF run[1] = "6" THEN {1, 2} ELSE {1}) ELSE {}
set_field(fields, item, value) ==
    CASE item = "%Y" -> [fields EXCEPT !.Y = value]
      [] item = "%m" -> [fields EXCEPT !.m = value]
      [] item = "%d" -> [fields EXCEPT !.d = value]
      [] item = "%H" -> [fields EXCEPT !.H = value]
      [] item = "%M" -> [fields EXCEPT !.M = value]
      [] item = "%S" -> [fields EXCEPT !.S = value]
      [] OTHER -> [fields EXCEPT !.f = value]

\* two characters that are the same when case is ignored
same_ignoring_case(pair) ==
    LET lowered == [i \in 1..Len(pair) |-> lower_char(pair[i])]
    IN  lowered[1] = lowered[2]

\* the month a name stands for, 0 when it is no name of the table
index_of(names, name) ==
    IF \E m \in 1..Len(names) : names[m] = name
    THEN CHOOSE m \in 1..Len(names) : names[m] = name
    ELSE 0
month_of(names, word) == index_of(names, lower(word))

\* the match of the compiled pattern of a format against the whole text:
\* the fields the directives read, None when the text does not match
RECURSIVE strptime_fields(_, _, _)
strptime_fields(s, fmt, fields) ==
    IF fmt = <<>> THEN (IF s = <<>> THEN Some(fields) ELSE None)
    ELSE
    bind(Head(fmt), LAMBDA item :
        CASE item \in {"%Y", "%m", "%d", "%H", "%M", "%S", "%f"} ->
               \* %d also takes a space and one digit
               bind(IF item = "%d" /\ Len(s) >= 2 /\ s[1] = " "
                       /\ run_length(Tail(s), Digits) = 1
                    THEN 1 ELSE 0, LAMBDA pad :
               bind(run_length(SubSeq(s, pad + 1, Len(s)), Digits), LAMBDA digits :
               bind(SubSeq(s, pad + 1, pad + digits), LAMBDA run :
               bind(int(run), LAMBDA value :
               IF /\ digits \in directive_widths(item)
                  /\ value \in directive_values(item)
                  /\ \A i \in directive_ascii(item, run) : run[i] \in AsciiDigits
                  /\ pad = 1 => value >= 1
               THEN strptime_fields(SubSeq(s, pad + digits + 1, Len(s)),
                                    Tail(fmt), set_field(fields, item, value))
               ELSE None))))
          [] item \in {"%B", "%b"} ->
               bind(run_length(s, Uppers \cup Lowers), LAMBDA letters :
               bind(month_of(IF item = "%B" THEN month_name ELSE month_abbr,
                             SubSeq(s, 1, letters)), LAMBDA month :
               IF month >= 1
               THEN strptime_fields(SubSeq(s, letters + 1, Len(s)), Tail(fmt),
                                    [fields EXCEPT !.m = month])
               ELSE None))
          [] item = " " ->
               bind(run_length(s, Spaces), LAMBDA spaces :
               IF spaces >= 1
               THEN strptime_fields(SubSeq(s, spaces + 1, Len(s)), Tail(fmt),
                                    fields)
               ELSE None)
          [] OTHER ->
               IF s # <<>> /\ same_ignoring_case(<<Head(s), item>>)
               THEN strptime_fields(Tail(s), Tail(fmt), fields)
               ELSE None)

\* datetime.strptime(s, fmt).replace(tzinfo=timezone.utc): the instant, None
\* when strptime raises ValueError
strptime(s, fmt) ==
    bind(strptime_fields(s, fmt, default_fields), LAMBDA found :
    IF found = None THEN None
    ELSE bind(found[1], LAMBDA t :
         IF /\ t.Y >= 1
            /\ t.d <= days_in_month(t.Y, t.m)
            /\ t.S < SecondsPerMinute
         THEN Some((toordinal(t.Y, t.m, t.d) - EpochOrdinal) * SecondsPerDay
                   + t.H * SecondsPerHour + t.M * SecondsPerMinute + t.S)
         ELSE None))

\* the formats list of _parse_date, each format split into its directives
\* and literal characters
formats ==
    << <<"%Y", "-", "%m", "-", "%d", "T", "%H", ":", "%M", ":", "%S", ".", "%f", "Z">>,
       <<"%Y", "-", "%m", "-", "%d", "T", "%H", ":", "%M", ":", "%S", "Z">>,
       <<"%Y", "-", "%m", "-", "%d">>,
       <<"%B", " ", "%d", ",", " ", "%Y">>,
       <<"%b", " ", "%d", ",", " ", "%Y">>,
       <<"%d", " ", "%B", " ", "%Y">>,
       <<"%d", " ", "%b", " ", "%Y">> >>

\* the "for fmt in formats" loop from the n-th format on: the first format
\* that parses decides
RECURSIVE first_format(_, _)
first_format(s, n) ==
    IF n > Len(formats) THEN None
    ELSE bind(strptime(s, formats[n]), LAMBDA dt :
         IF dt # None THEN dt ELSE first_format(s, n + 1))

\* the alternatives of the unit group, in the order of the pattern
units == <<<<"d", "a", "y">>, <<"h", "o", "u", "r">>, <<"m", "i", "n", "u", "t", "e">>, <<"w", "e", "e", "k">>>>

\* re.match(r'(\d+)\s*(day|hour|minute|week)s?\s*ago', s): the groups
\* [num, unit] of the match at the start of s, None when there is none
relative_match(s) ==
    LET digits == run_length(s, Digits)
        rest == lstrip(SubSeq(s, digits + 1, Len(s)))
        ago(r) == startswith(lstrip(r), <<"a", "g", "o">>)
        matches(u) ==
            /\ startswith(rest, units[u])
            /\ LET r == SubSeq(rest, Len(units[u]) + 1, Len(rest))
               IN  \/ r # <<>> /\ Head(r) = "s" /\ ago(Tail(r))
                   \/ ago(r)
        found == {u \in 1..Len(units) : matches(u)}
    IN  IF digits >= 1 /\ found # {}
        THEN Some([num |-> SubSeq(s, 1, digits),
                   unit |-> units[CHOOSE u \in found : TRUE]])
        ELSE None

unit_seconds_days_only(unit) == SecondsPerDay
\* the seconds of timedelta(days=1), (hours=1), (minutes=1), (weeks=1)
unit_seconds(unit) ==
    CASE unit = <<"d", "a", "y">> -> SecondsPerDay
      [] unit = <<"h", "o", "u", "r">> -> SecondsPerHour
      [] unit = <<"m", "i", "n", "u", "t", "e">> -> SecondsPerMinute
      [] OTHER -> DaysPerWeek * SecondsPerDay

\* int(digits) >= 2 * 10^9, told from the digits: such a number is beyond
\* the integers of the model and beyond what any unit allows
RECURSIVE lstrip_zeros(_)
lstrip_zeros(digits) ==
    IF Len(digits) > 1 /\ DigitValue(Head(digits)) = 0
    THEN lstrip_zeros(Tail(digits))
    ELSE digits
is_huge(digits) ==
    LET d == lstrip_zeros(digits)
    IN  \/ Len(d) > Len(DigitChars)
        \/ Len(d) = Len(DigitChars) /\ DigitValue(d[1]) # 1

\* whether "now - timedelta(unit=num)" raises OverflowError: the result
\* would be earlier than datetime.min (a timedelta of more days than a
\* timedelta can hold is earlier still)
overflows(num, unit, now) ==
    LET \* whole days from datetime.min to now, and the rest of the day
        days == EpochOrdinal - MinOrdinal + now \div SecondsPerDay
        rest == now % SecondsPerDay
        per_day == SecondsPerDay \div unit_seconds(unit)
    IN  IF unit_seconds(unit) >= SecondsPerDay
        THEN num > days \div (unit_seconds(unit) \div SecondsPerDay)
        ELSE \/ num \div per_day > days
             \/ num \div per_day = days
                  /\ (num % per_day) * unit_seconds(unit) > rest

\* OpenAINewsScraper._parse_date(date_str), called at the instant now: the
\* instant it returns, None for the None it returns
_parse_date(date_str, now) ==
    IF date_str = <<>> THEN ReturnedValue(None)
    ELSE
    bind(first_format(strip(date_str), 1), LAMBDA dt :
    IF dt # None THEN ReturnedValue(dt)
    ELSE
    bind(relative_match(lower(date_str)), LAMBDA relative_match_ :
    IF relative_match_ = None THEN ReturnedValue(None)
    ELSE
    bind(relative_match_[1].num, LAMBDA num :
    bind(relative_match_[1].unit, LAMBDA unit :
    IF is_huge(num) THEN RaisedError
    ELSE bind(int(num), LAMBDA amount :
         IF overflows(amount, unit, now) THEN RaisedError
         ELSE ReturnedValue(Some(now - amount * unit_seconds(unit))))))))

-----------------------------------------------------------------------------
(* The scrapers: scrapers/youtube.py, scrapers/anthropic_news.py,          *)
(* scrapers/openai_news.py, scrapers/substack.py, and the legacy youtube.py *)
(*                                                                         *)
(* A feed entry is [link, published, date_str]: published is the instant  *)
(* of entry.published_parsed (None when the entry has none), date_str the  *)
(* date text the OpenAI news page shows with a link.                       *)

\* config.YOUTUBE_CHANNELS, the channel ids the runner polls
YOUTUBE_CHANNELS == <<"ch1", "ch2">>
\* config.HOURS_BACK, the default window of run_all
HOURS_BACK == 24
\* the hours_back=24 default of the fetch operations
DefaultHoursBack == 24
\* the hours_back=168 default of AnthropicScraper.fetch_engineering
EngineeringHoursBack == 168
\* the hours_back=99999 that AnthropicScraper.fetch_research passes
ResearchHoursBack == 99999
\* list(AnthropicFeedType)
AnthropicFeedTypes == <<"news", "engineering", "research">>

\* the body an item gets when its enrichment succeeds
\* (convert_url_to_markdown(url), Transcript(text).text)
BodyOf(id) == <<"body of", id>>

\* extract_video_id(url): the 11-character id of a watch / youtu.be / embed
\* link, None for any other link
extract_video_id(link) == IF link = "nv" THEN None ELSE Some(link)

\* the bodies a server answers with: nothing, a feed or page, a malformed feed
Bodies == {<<>>, <<"a">>, <<"<">>}
\* feedparser.parse(text).bozo
bozo(text) == text = <<"<">>

\* bool(value) of an optional text: "if cached_content:"
truthy(value) == value # None /\ value[1] # <<>>

\* YouTubeScraper.build_rss_url(channel_id)
build_rss_url(channel_id) ==
    "https://www.youtube.com/feeds/videos.xml?channel_id=" \o channel_id
\* AnthropicScraper.FEEDS
FEEDS ==
    [news |-> "https://raw.githubusercontent.com/Olshansk/rss-feeds/main/feeds/feed_anthropic_news.xml",
     engineering |-> "https://raw.githubusercontent.com/Olshansk/rss-feeds/main/feeds/feed_anthropic_engineering.xml",
     research |-> "https://raw.githubusercontent.com/Olshansk/rss-feeds/main/feeds/feed_anthropic_research.xml"]
\* OpenAINewsScraper.NEWS_URL, written short
NEWS_URL == "u1"
\* f"transcript_{video_id}"
cache_key(video_id) == "transcript_" \o video_id

\* the URL and the kind a listing fetch of a scraper reads and stores its
\* payload under: get_cached(rss_url, "xml"), get_cached(url, "html")
listing_url(scraper, feed) ==
    CASE scraper = "youtube" -> build_rss_url(feed)
      [] scraper = "anthropic" -> FEEDS[feed]
      [] scraper = "openai" -> NEWS_URL
      [] OTHER -> feed
listing_kind(scraper) == IF scraper = "openai" THEN "html" ELSE "xml"
\* the URL and the kind the enrichment of an item reads and stores its
\* payload under: get_cached(cache_key, "vtt") in get_transcript,
\* get_cached(url, "html") in convert_url_to_markdown
enrichment_url(scraper, id) ==
    IF scraper = "youtube" THEN cache_key(id) ELSE id
enrichment_kind(scraper) == IF scraper = "youtube" THEN "vtt" ELSE "html"
\* the legacy module youtube.py has no cache
uses_cache(scraper) == scraper # "legacy"

\* bounds of the model
MaxEntries == 2     \* feed entries one call reads, over all its listings
MaxClock == 1       \* hours the clock advances while one call runs

\* the date texts the OpenAI page is drawn from:
NoDate == <<>>
\* '', '1 hour ago', 'Jan 1, 2024', 'Jan 2, 2024', '800000 days ago'
DateStrs ==
    {NoDate,
     <<"1", " ", "h", "o", "u", "r", " ", "a", "g", "o">>,
     <<"J", "a", "n", " ", "1", ",", " ", "2", "0", "2", "4">>,
     <<"J", "a", "n", " ", "2", ",", " ", "2", "0", "2", "4">>,
     <<"8", "0", "0", "0", "0", "0", " ", "d", "a", "y", "s", " ", "a", "g", "o">>}
\* the instants the clock of a call passes through
Clocks == {h * SecondsPerHour : h \in 0..MaxClock}
\* _parse_date of every date text at every instant of the clock, computed
\* once
ParsedDates ==
    [date_str \in DateStrs, now \in Clocks |-> _parse_date(date_str, now)]

\* the publish time the listing loop of a scraper reads from an entry
published_of(scraper, e, now) ==
    IF scraper # "openai" THEN ReturnedValue(e.published)
    ELSE IF <<e.date_str, now>> \in DOMAIN ParsedDates
    THEN ParsedDates[e.date_str, now]
    ELSE _parse_date(e.date_str, now)

keep_without_window(scraper, include_undated, e, published_at, cutoff) ==
    IF published_at # None
    THEN (scraper \in {"youtube", "legacy"} => extract_video_id(e.link) # None)
    ELSE scraper = "anthropic" /\ include_undated
keep_dated_only(scraper, include_undated, e, published_at, cutoff) ==
    /\ published_at # None
    /\ ~ (published_at[1] < cutoff)
    /\ scraper \in {"youtube", "legacy"} => extract_video_id(e.link) # None
\* whether the listing loop appends the entry: the body of
\* "for entry in feed.entries" up to the append
keep(scraper, include_undated, e, published_at, cutoff) ==
    IF published_at # None
    THEN /\ ~ (published_at[1] < cutoff)
         /\ scraper \in {"youtube", "legacy"} => extract_video_id(e.link) # None
    ELSE scraper = "anthropic" /\ include_undated

\* SubstackScraper: content = "", then entry.content[0].value when the
\* entry has a content attribute ("" when that list is empty), else
\* entry.summary when it has one
entry_content(e) ==
    IF e.content # None
    THEN (IF e.content[1] # <<>> THEN e.content[1][1] ELSE <<>>)
    ELSE IF e.summary # None THEN e.summary[1] ELSE <<>>

\* ChannelVideo(...) / AnthropicArticle(...) / OpenAIArticle(...) /
\* SubstackArticle(...) / the legacy dict: id is video_id, guid or url; the
\* body (transcript, content) is the default None, and for a
\* SubstackArticle the content of the entry
make_item(scraper, feed, e, published_at) ==
    [id |-> IF scraper \in {"youtube", "legacy"}
            THEN extract_video_id(e.link)[1] ELSE e.link,
     published_at |-> published_at,
     content |-> IF scraper = "substack" THEN Some(entry_content(e)) ELSE None,
     feed |-> feed]

\* key=lambda a: a.published_at or datetime.min.replace(tzinfo=timezone.utc)
\* None stands for datetime.min, which is too early to be written as an
\* instant
sort_key(a) == a.published_at
\* x < y for two sort keys: datetime.min is earlier than every publish time
key_before(x, y) ==
    IF x = None THEN y # None ELSE y # None /\ x[1] < y[1]

\* list.sort(key=..., reverse=True): newest first, stable
RECURSIVE sort_newest_first(_)
sort_newest_first(items) ==
    IF items = <<>> THEN <<>>
    ELSE LET n == Len(items)
             x == items[n]
             front == sort_newest_first(SubSeq(items, 1, n - 1))
             before == SelectSeq(front, LAMBDA a :
                                     ~ key_before(sort_key(a), sort_key(x)))
             after == SelectSeq(front, LAMBDA a :
                                    key_before(sort_key(a), sort_key(x)))
         IN  before \o <<x>> \o after

-----------------------------------------------------------------------------
(* The calls                                                               *)

Job(source, scraper, listings, hours_back, include_undated, enrich, guard, sorted) ==
    [source |-> source, scraper |-> scraper, listings |-> listings,
     hours_back |-> hours_back, include_undated |-> include_undated,
     enrich |-> enrich, guard |-> guard, sorted |-> sorted]

OrElse(arg, default) == IF arg = None THEN default ELSE arg[1]

\* What a call does: the sources it fetches in order; of each, the listings
\* (channels, feeds), the window, the undated policy, where the enrichment
\* loop runs ("none", "per_listing": scrape_channel / ingest_channel,
\* "at_end": fetch_articles_with_content), where exceptions are caught
\* ("none", "per_listing": fetch_youtube, "whole": fetch_anthropic /
\* fetch_openai) and whether the list is sorted before it is returned.
Jobs(o) ==
    CASE o.name = "run_all" ->
           LET hb == OrElse(o.hours_back, HOURS_BACK)
           IN  << Job("youtube", "youtube", YOUTUBE_CHANNELS, hb, FALSE,
                      "per_listing", "per_listing", FALSE),
                  Job("anthropic", "anthropic", AnthropicFeedTypes, hb, FALSE,
                      "at_end", "whole", TRUE),
                  Job("openai", "openai", <<"news_page">>, hb, FALSE,
                      "at_end", "whole", FALSE) >>
      [] o.name = "YouTubeScraper.fetch_channel_videos" ->
           << Job("", "youtube", <<"ch1">>, OrElse(o.hours_back, DefaultHoursBack),
                  FALSE, "none", "none", FALSE) >>
      [] o.name = "YouTubeScraper.scrape_channel" ->
           << Job("", "youtube", <<"ch1">>, OrElse(o.hours_back, DefaultHoursBack),
                  FALSE, "per_listing", "none", FALSE) >>
      [] o.name = "AnthropicScraper.fetch_articles" ->
           << Job("", "anthropic", AnthropicFeedTypes,
                  OrElse(o.hours_back, DefaultHoursBack),
                  OrElse(o.include_undated, FALSE), "none", "none", TRUE) >>
      [] o.name = "AnthropicScraper.fetch_news" ->
           << Job("", "anthropic", <<"news">>,
                  OrElse(o.hours_back, DefaultHoursBack), FALSE,
                  "none", "none", TRUE) >>
      [] o.name = "AnthropicScraper.fetch_engineering" ->
           << Job("", "anthropic", <<"engineering">>,
                  OrElse(o.hours_back, EngineeringHoursBack), FALSE,
                  "none", "none", TRUE) >>
      [] o.name = "AnthropicScraper.fetch_research" ->
           << Job("", "anthropic", <<"research">>, ResearchHoursBack,
                  OrElse(o.include_undated, TRUE), "none", "none", TRUE) >>
      [] o.name = "AnthropicScraper.fetch_articles_with_content" ->
           << Job("", "anthropic", AnthropicFeedTypes,
                  OrElse(o.hours_back, DefaultHoursBack),
                  OrElse(o.include_undated, FALSE), "at_end", "none", TRUE) >>
      [] o.name = "OpenAINewsScraper.fetch_articles" ->
           << Job("", "openai", <<"news_page">>,
                  OrElse(o.hours_back, DefaultHoursBack), FALSE,
                  "none", "none", FALSE) >>
      [] o.name = "OpenAINewsScraper.fetch_articles_with_content" ->
           << Job("", "openai", <<"news_page">>,
                  OrElse(o.hours_back, DefaultHoursBack), FALSE,
                  "at_end", "none", FALSE) >>
      [] o.name = "SubstackScraper.fetch_articles" ->
           << Job("", "substack", <<"rss_url">>,
                  OrElse(o.hours_back, DefaultHoursBack), FALSE,
                  "none", "none", FALSE) >>
      [] o.name = "youtube.fetch_channel_videos" ->
           << Job("", "legacy", <<"ch1">>, OrElse(o.hours_back, DefaultHoursBack),
                  FALSE, "none", "none", FALSE) >>
      [] o.name = "youtube.ingest_channel" ->
           << Job("", "legacy", <<"ch1">>, OrElse(o.hours_back, DefaultHoursBack),
                  FALSE, "per_listing", "none", FALSE) >>

\* the inputs the calls are drawn from
\* a video link and a link that is no video link; two article links, and
\* one article link where run_all reads the articles
Links(scraper) ==
    IF scraper \in {"youtube", "legacy"} THEN {"a", "nv"}
    ELSE IF op.name = "run_all" THEN {"a"} ELSE {"a", "b"}
\* a week before Epoch, a day before Epoch, Epoch
PubTimes == {- DaysPerWeek * SecondsPerDay, - SecondsPerDay, 0}
\* the content list and the summary of a feed entry (None: the entry has
\* no such attribute): neither, a summary alone, an empty content list, a
\* content list with one value
EntryBodies ==
    {<<None, None>>, <<None, Some(<<"s">>)>>, <<Some(<<>>), Some(<<"s">>)>>,
     <<Some(<< <<"c">> >>), Some(<<"s">>)>>}
\* the entries of a feed and the items page.evaluate returns; the content
\* of an entry is read by SubstackScraper alone
Entries(scraper) ==
    IF scraper = "openai"
    THEN [link : Links(scraper), published : {None}, date_str : DateStrs,
          content : {None}, summary : {None}]
    ELSE {[link |-> link, published |-> published, date_str |-> NoDate,
           content |-> body[1], summary |-> body[2]] :
             link \in Links(scraper),
             published \in {None} \cup {Some(t) : t \in PubTimes},
             body \in IF scraper = "substack" THEN EntryBodies
                      ELSE {<<None, None>>}}
\* a call: the function and its arguments
OpCall(name, hours_back, include_undated) ==
    [name |-> name, hours_back |-> hours_back,
     include_undated |-> include_undated, at |-> 0]
\* the calls of the operations of the scrapers, with the default window and
\* with a window of one hour
Ops ==
    {OpCall(n, hb, None) :
        n \in {"YouTubeScraper.fetch_channel_videos",
               "YouTubeScraper.scrape_channel", "AnthropicScraper.fetch_news",
               "AnthropicScraper.fetch_engineering",
               "OpenAINewsScraper.fetch_articles",
               "OpenAINewsScraper.fetch_articles_with_content",
               "SubstackScraper.fetch_articles",
               "youtube.fetch_channel_videos", "youtube.ingest_channel"},
        hb \in {None, Some(1)}}
    \cup {OpCall(n, hb, iu) :
            n \in {"AnthropicScraper.fetch_articles",
                   "AnthropicScraper.fetch_articles_with_content"},
            hb \in {None, Some(1)}, iu \in {None, Some(TRUE)}}
    \cup {OpCall("AnthropicScraper.fetch_research", None, iu) :
            iu \in {None, Some(FALSE)}}
\* run_all() with the configured window
RunAllOps == {OpCall("run_all", None, None)}

\* the job and the listing the call is at
J == Jobs(op)[j]
Raised == [raised |-> TRUE, items |-> <<>>]
Returned(items) == [raised |-> FALSE, items |-> items]

Cur ==
    [pc |-> pc, j |-> j, idx |-> idx, listing |-> listing,
     all_items |-> all_items, k |-> k, results |-> results, ret |-> ret,
     log |-> log]
Become(st) ==
    /\ pc' = st.pc /\ j' = st.j /\ idx' = st.idx /\ listing' = st.listing
    /\ all_items' = st.all_items /\ k' = st.k /\ results' = st.results
    /\ ret' = st.ret /\ log' = st.log

\* the call returns `value` (run_all: the results dictionary)
finish(st, raised, value) ==
    [st EXCEPT !.ret = Some([raised |-> raised, value |-> value]),
               !.listing = <<>>, !.all_items = <<>>, !.k = 0, !.pc = "done"]

\* fetch_youtube / fetch_anthropic / fetch_openai return `value` to run_all,
\* which goes on with the next source and returns the dictionary after the
\* last; any other call returns `value` itself
end_source(st, value) ==
    IF op.name = "run_all"
    THEN LET source == Jobs(op)[st.j].source
             res == [s \in DOMAIN st.results \cup {source} |->
                        IF s = source THEN value ELSE st.results[s]]
         IN  IF st.j < Len(Jobs(op))
             THEN [st EXCEPT !.results = res, !.j = @ + 1, !.idx = 1,
                             !.listing = <<>>, !.all_items = <<>>, !.k = 0,
                             !.pc = "fetch"]
             ELSE finish([st EXCEPT !.results = res], FALSE, res)
    ELSE finish(st, FALSE, value)

\* after the last listing of a source: fetch_articles sorts, then
\* fetch_articles_with_content enriches every article
after_listings(st) ==
    LET job == Jobs(op)[st.j]
        items == IF job.sorted THEN sort_newest_first(st.all_items)
                 ELSE st.all_items
    IN  IF job.enrich = "at_end" /\ items # <<>>
        THEN [st EXCEPT !.all_items = items, !.listing = <<>>, !.k = 1,
                        !.pc = "enrich"]
        ELSE end_source([st EXCEPT !.all_items = items], items)

\* "for channel_id in channel_ids" / "for feed_type in feed_types"
next_listing(st) ==
    IF st.idx < Len(Jobs(op)[st.j].listings)
    THEN [st EXCEPT !.idx = @ + 1, !.listing = <<>>, !.k = 0, !.pc = "fetch"]
    ELSE after_listings(st)

\* all_videos.extend(videos) / all_articles.extend(articles)
listing_returned(st) ==
    next_listing([st EXCEPT !.all_items = @ \o st.listing])

raise_listing_uncaught(st) ==
    finish([st EXCEPT !.log[st.j] = Append(@, Raised)], TRUE, <<>>)
\* An exception leaves a listing fetch.  fetch_youtube catches it per
\* channel and goes on with the next channel; fetch_anthropic and
\* fetch_openai catch it and return []; elsewhere it leaves the call.
raise_listing(st) ==
    LET job == Jobs(op)[st.j]
        logged == [st EXCEPT !.log[st.j] = Append(@, Raised)]
    IN  CASE job.guard = "per_listing" -> next_listing(logged)
          [] job.guard = "whole" -> end_source(logged, <<>>)
          [] OTHER -> finish(logged, TRUE, <<>>)

enriched_or_other_body(item, ok) ==
    [item EXCEPT !.content = IF ok THEN Some(BodyOf(item.id)) ELSE Some(BodyOf("a"))]
\* article.content = convert_url_to_markdown(article.url), None when it
\* raises; video.model_copy(update={'transcript': ...}), None when
\* get_transcript returns None
enriched(item, ok) ==
    [item EXCEPT !.content = IF ok THEN Some(BodyOf(item.id)) ELSE None]

\* the URL and the kind of the listing fetch the call is at
ListingUrl == listing_url(J.scraper, J.listings[idx])
ListingKind == listing_kind(J.scraper)
\* the payload a fetch holds once it has read it from the cache
\* (cached_content, cached_html) or has stored what the network returned
\* (response.text, html_content)
Held == IF last.op = "get" THEN last.ret[1] ELSE last.content
\* the payloads a listing request is answered with: a feed, a malformed
\* feed; a page
ListingPayloads(kind) ==
    IF kind = "xml" THEN {<<"a">>, <<"<">>} ELSE {<<"a">>}

\* a listing fetch begins: cached = get_cached(url, kind); a cached payload
\* is parsed, and on a miss the request is sent (requests.get, page.goto;
\* feedparser.parse(rss_url) in the legacy module, which has no cache)
ListingRequested ==
    /\ pc = "fetch"
    /\ IF uses_cache(J.scraper)
       THEN /\ last' = Call("get", ListingUrl, ListingKind, <<>>,
                            cached_value(files, ListingUrl, ListingKind))
            /\ pc' = IF truthy(cached_value(files, ListingUrl, ListingKind))
                     THEN "parse" ELSE "wait"
       ELSE /\ UNCHANGED last
            /\ pc' = "wait"
    /\ UNCHANGED <<environ, files>>
    /\ UNCHANGED <<clock, op, j, idx, cutoff_time, entry, listing, all_items,
                   k, results, ret, drawn, log>>
    /\ UNCHANGED auxVars

\* time passes while the call waits for a listing and while it parses the
\* feed or reads the page in its second browser session.  The call reads
\* the clock when a listing fetch computes its cutoff and, in the loop of
\* OpenAINewsScraper, whenever _parse_date reads a relative date; the
\* passing of time is observed there
Tick ==
    /\ pc \in {"wait", "parse"} \/ (pc = "loop" /\ J.scraper = "openai")
    /\ clock < MaxClock * SecondsPerHour
    /\ clock' = clock + SecondsPerHour
    /\ UNCHANGED <<op, pc, j, idx, cutoff_time, entry, listing, all_items, k,
                   results, ret, drawn, log>>
    /\ UNCHANGED cacheVars
    /\ UNCHANGED auxVars

\* the request of a listing fetch is answered with a payload, which is
\* stored before it is parsed or read: set_cached(url, payload, kind)
ListingStored ==
    /\ pc = "wait"
    /\ uses_cache(J.scraper)
    /\ \E payload \in ListingPayloads(ListingKind) :
          /\ files' = stored_files(files, ListingUrl, payload, ListingKind)
          /\ last' = Call("set", ListingUrl, ListingKind, payload, None)
    /\ pc' = "parse"
    /\ UNCHANGED environ
    /\ UNCHANGED <<clock, op, j, idx, cutoff_time, entry, listing, all_items,
                   k, results, ret, drawn, log>>
    /\ UNCHANGED auxVars

\* the listing fetch has parsed its payload (the feed is well-formed, the
\* second browser session of fetch_articles has returned the page's
\* articles; in the legacy module feedparser.parse(rss_url) has returned a
\* feed) and reads the clock:
\* now = datetime.now(timezone.utc); cutoff_time = now - timedelta(hours=hours_back)
ListingFetched ==
    /\ IF uses_cache(J.scraper)
       THEN /\ pc = "parse"
            /\ ListingKind = "xml" => ~ bozo(Held)
       ELSE pc = "wait"
    /\ cutoff_time' = Some(clock - J.hours_back * SecondsPerHour)
    /\ listing' = <<>>
    /\ entry' = None
    /\ pc' = "loop"
    /\ UNCHANGED <<clock, op, j, idx, all_items, k, results, ret, drawn, log>>
    /\ UNCHANGED cacheVars
    /\ UNCHANGED auxVars

\* a listing fetch raises: the request fails (HTTP error, timeout, the page
\* does not load) and nothing is stored; or the payload it holds, cached or
\* just stored, is a malformed feed (feed.bozo) or a page whose reading in
\* the second browser session of fetch_articles raises
ListingRaises ==
    /\ \/ pc = "wait"
       \/ /\ pc = "parse"
          /\ ListingKind = "xml" => bozo(Held)
    /\ Become(raise_listing(Cur))
    /\ entry' = None
    /\ UNCHANGED <<clock, op, cutoff_time, drawn>>
    /\ UNCHANGED cacheVars
    /\ UNCHANGED auxVars

\* one iteration of "for entry in feed.entries" / "for item in articles_data";
\* an exception of _parse_date leaves fetch_articles as one of the listing
\* fetch does
NextEntry ==
    /\ pc = "loop"
    /\ drawn < MaxEntries
    /\ \E e \in Entries(J.scraper) :
          /\ entry' = Some(e)
          /\ LET read == published_of(J.scraper, e, clock)
                 published_at == read.value
                 kept == keep(J.scraper, J.include_undated, e, published_at,
                              cutoff_time[1])
                 item == make_item(J.scraper, J.listings[idx], e, published_at)
             IN  IF read.raised THEN Become(raise_listing(Cur))
                 ELSE Become([Cur EXCEPT !.listing =
                                 IF kept THEN Append(@, item) ELSE @])
    /\ drawn' = drawn + 1
    /\ UNCHANGED <<clock, op, cutoff_time>>
    /\ UNCHANGED cacheVars
    /\ UNCHANGED auxVars

\* the loop over the entries ends and the listing fetch returns its list;
\* scrape_channel / ingest_channel go on to the transcripts of its videos
EndOfEntries ==
    /\ pc = "loop"
    /\ LET logged == [Cur EXCEPT !.log[j] = Append(@, Returned(listing))]
       IN  IF J.enrich = "per_listing" /\ listing # <<>>
           THEN Become([logged EXCEPT !.k = 1, !.pc = "enrich"])
           ELSE Become(listing_returned(logged))
    /\ entry' = None
    /\ UNCHANGED <<clock, op, cutoff_time, drawn>>
    /\ UNCHANGED cacheVars
    /\ UNCHANGED auxVars

\* a caption payload without text, a page that cannot be converted
Unusable == <<"unusable">>

\* the item the enrichment loop is at, the URL and the kind its payload is
\* cached under
EnrichItem == IF J.enrich = "per_listing" THEN listing[k] ELSE all_items[k]
EnrichUrl == enrichment_url(J.scraper, EnrichItem.id)
EnrichKind == enrichment_kind(J.scraper)

\* the enrichment of the item ends, ok being whether the transcript or the
\* markdown was obtained: "for video in videos" of scrape_channel /
\* ingest_channel, "for article in articles" of fetch_articles_with_content
\* go on with the next item or return
enrichment_ended(st, ok) ==
    LET done == IF J.enrich = "per_listing"
                THEN [st EXCEPT !.listing[k] = enriched(@, ok)]
                ELSE [st EXCEPT !.all_items[k] = enriched(@, ok)]
        n == IF J.enrich = "per_listing" THEN Len(listing) ELSE Len(all_items)
    IN  IF k < n THEN [done EXCEPT !.k = @ + 1, !.pc = "enrich"]
        ELSE IF J.enrich = "per_listing" THEN listing_returned(done)
        ELSE end_source(done, done.all_items)

\* cached = get_cached(url, kind) of an enrichment: a cached payload is
\* parsed or converted as it is, on a miss the payload is requested
\* (requests.get, page.goto)
EnrichmentCacheRead ==
    /\ last' = Call("get", EnrichUrl, EnrichKind, <<>>,
                    cached_value(files, EnrichUrl, EnrichKind))
    /\ Become([Cur EXCEPT !.pc =
                  IF truthy(cached_value(files, EnrichUrl, EnrichKind))
                  THEN "convert" ELSE "download"])
    /\ UNCHANGED <<environ, files>>

\* the enrichment of an item begins.  get_transcript sends the extraction
\* of the caption tracks (ydl.extract_info); convert_url_to_markdown reads
\* the cache; the legacy module, which has no cache, asks
\* YouTubeTranscriptApi
EnrichRequested ==
    /\ pc = "enrich"
    /\ IF J.scraper = "youtube"
       THEN /\ Become([Cur EXCEPT !.pc = "extract"])
            /\ UNCHANGED cacheVars
       ELSE IF uses_cache(J.scraper)
       THEN EnrichmentCacheRead
       ELSE /\ Become([Cur EXCEPT !.pc = "download"])
            /\ UNCHANGED cacheVars
    /\ UNCHANGED <<clock, op, cutoff_time, entry, drawn>>
    /\ UNCHANGED auxVars

\* ydl.extract_info ends: it raises or finds no caption track, and
\* get_transcript returns None; or a caption URL is selected, and the cache
\* is read
Extracted ==
    /\ pc = "extract"
    /\ \/ /\ Become(enrichment_ended(Cur, FALSE))
          /\ UNCHANGED cacheVars
       \/ EnrichmentCacheRead
    /\ UNCHANGED <<clock, op, cutoff_time, entry, drawn>>
    /\ UNCHANGED auxVars

\* the request for the payload of an item is answered: it failed, and
\* nothing is stored, or it returned a payload, which is stored
\* (set_cached) before it is parsed or converted; the legacy module has the
\* transcript or None
Enrich ==
    /\ pc = "download"
    /\ \/ /\ Become(enrichment_ended(Cur, FALSE))
          /\ UNCHANGED cacheVars
       \/ /\ uses_cache(J.scraper)
          /\ \E payload \in {BodyOf(EnrichItem.id), Unusable} :
                /\ files' = stored_files(files, EnrichUrl, payload, EnrichKind)
                /\ last' = Call("set", EnrichUrl, EnrichKind, payload, None)
          /\ Become([Cur EXCEPT !.pc = "convert"])
          /\ UNCHANGED environ
       \/ /\ ~ uses_cache(J.scraper)
          /\ Become(enrichment_ended(Cur, TRUE))
          /\ UNCHANGED cacheVars
    /\ UNCHANGED <<clock, op, cutoff_time, entry, drawn>>
    /\ UNCHANGED auxVars

\* the payload the enrichment holds is parsed (_parse_transcript) or
\* converted (DocumentConverter().convert): the item gets its body, or None
\* when the payload has no text or the conversion raises
Convert ==
    /\ pc = "convert"
    /\ Become(enrichment_ended(Cur, Held = BodyOf(EnrichItem.id)))
    /\ UNCHANGED <<clock, op, cutoff_time, entry, drawn>>
    /\ UNCHANGED cacheVars
    /\ UNCHANGED auxVars

\* the URL and the kind of the payload the call is fetching
AwaitedUrl == IF pc \in {"wait", "parse"} THEN ListingUrl ELSE EnrichUrl
AwaitedKind == IF pc \in {"wait", "parse"} THEN ListingKind ELSE EnrichKind

\* while the call waits for the network, parses or converts, another caller
\* changes the cache: a call of the same fetch that overlaps this one and
\* missed the cache stores the payload it received (while this call waits),
\* or clear_cache() runs
OtherCaller ==
    /\ pc \in {"wait", "parse", "extract", "download", "convert"}
    /\ uses_cache(J.scraper)
    /\ \/ /\ pc \in {"wait", "extract", "download"}
          /\ cached_value(files, AwaitedUrl, AwaitedKind) = None
          /\ files' = stored_files(files, AwaitedUrl,
                                   IF pc = "wait" THEN <<"a">>
                                   ELSE BodyOf(EnrichItem.id), AwaitedKind)
       \/ files # NoFiles /\ files' = NoFiles
    /\ UNCHANGED <<environ, last>>
    /\ UNCHANGED runVars
    /\ UNCHANGED auxVars

IdleRun ==
    /\ clock = 0
    /\ op = OpCall("", None, None)
    /\ pc = "done"
    /\ j = 1 /\ idx = 1 /\ k = 0
    /\ cutoff_time = None /\ entry = None
    /\ listing = <<>> /\ all_items = <<>>
    /\ results = [s \in {} |-> <<>>]
    /\ ret = None
    /\ drawn = 0
    /\ log = <<>>

IdleAux ==
    /\ call = [fn |-> "", arg |-> <<>>]
    /\ result = <<>>
    /\ procs = <<>>

IdleCache ==
    /\ environ = None
    /\ files = NoFiles
    /\ last = Call("start", "", "", <<>>, None)

\* the call `o` begins
Begins(o) ==
    /\ IdleCache
    /\ clock = 0
    /\ op = o
    /\ pc = "fetch"
    /\ j = 1 /\ idx = 1 /\ k = 0
    /\ cutoff_time = None /\ entry = None
    /\ listing = <<>> /\ all_items = <<>>
    /\ results = [s \in {} |-> <<>>]
    /\ ret = None
    /\ drawn = 0
    /\ log = [i \in 1..Len(Jobs(o)) |-> <<>>]
    /\ IdleAux

Init == \E o \in Ops : Begins(o)
InitRunAll == \E o \in RunAllOps : Begins(o)

Next ==
    \/ ListingRequested
    \/ Tick
    \/ ListingStored
    \/ ListingFetched
    \/ ListingRaises
    \/ NextEntry
    \/ EndOfEntries
    \/ EnrichRequested
    \/ Extracted
    \/ Enrich
    \/ Convert
    \/ OtherCaller

\* run_all with the cache directory to itself
NextRunAll ==
    \/ ListingRequested
    \/ Tick
    \/ ListingStored
    \/ ListingFetched
    \/ ListingRaises
    \/ NextEntry
    \/ EndOfEntries
    \/ EnrichRequested
    \/ Extracted
    \/ Enrich
    \/ Convert

Spec == Init /\ [][Next]_vars
SpecRunAll == InitRunAll /\ [][NextRunAll]_vars

InitCache ==
    /\ environ \in EnvValues
    /\ files = NoFiles
    /\ last = Call("start", "", "", <<>>, None)
    /\ IdleRun
    /\ IdleAux

NextCache ==
    \/ \E url \in CacheUrls, suffix \in Suffixes : get_cached(url, suffix)
    \/ \E url \in CacheUrls, suffix \in Suffixes, content \in Contents :
          set_cached(url, content, suffix)
    \/ clear_cache
    \/ \E v \in EnvValues : SetEnv(v)

SpecCache == InitCache /\ [][NextCache]_vars

-----------------------------------------------------------------------------
(* YouTubeScraper._parse_transcript, _parse_json3, _parse_vtt              *)
(*                                                                         *)
(* A caption payload is [text, json, cues]: text is the payload's          *)
(* characters, json the document json.loads(text.strip()) returns (None    *)
(* when it raises JSONDecodeError; the members of a JSON object are then   *)
(* written as the one character "..."), and cues the lines a cue-format    *)
(* payload was put together from.  A JSON value is [type, value]: the type *)
(* json.loads gives it and its content, written as a record with the one  *)
(* field type; the content of a dict is a record whose fields are None     *)
(* for a key the object does not have.                                     *)

JsonValue(type, value) == [t \in {type} |-> value]
\* type(value).__name__
type_name(value) == CHOOSE t \in DOMAIN value : TRUE
value_of(value) == value[type_name(value)]
Dict(members) == JsonValue("dict", members)
List(items) == JsonValue("list", items)
Str(text) == JsonValue("str", text)
Number(n) == JsonValue("int", n)
Null == JsonValue("NoneType", None)

\* the keys of a dict, in some order
RECURSIVE keys(_, _)
keys(members, names) ==
    IF names = {} THEN <<>>
    ELSE LET name == CHOOSE name \in names : TRUE
         IN  (IF members[name] # None THEN <<Str(<<name>>)>> ELSE <<>>)
             \o keys(members, names \ {name})

\* value.get(key, default): a value that is no dict has no attribute get
get(value, key, default) ==
    IF type_name(value) # "dict" THEN Raises("AttributeError")
    ELSE IF key \in DOMAIN value_of(value) /\ value_of(value)[key] # None
         THEN ReturnedValue(value_of(value)[key][1])
         ELSE ReturnedValue(default)

\* "for item in value": the items visited; None, a number are not iterable
iterate(value) ==
    CASE type_name(value) = "list" -> ReturnedValue(value_of(value))
      [] type_name(value) = "str" ->
            ReturnedValue([i \in 1..Len(value_of(value)) |-> Str(<<value_of(value)[i]>>)])
      [] type_name(value) = "dict" ->
            ReturnedValue(keys(value_of(value), DOMAIN value_of(value)))
      [] OTHER -> Raises("TypeError")

\* bool(value)
truth(value) ==
    CASE type_name(value) = "NoneType" -> FALSE
      [] type_name(value) = "int" -> value_of(value) # 0
      [] type_name(value) = "dict" -> keys(value_of(value), DOMAIN value_of(value)) # <<>>
      [] OTHER -> value_of(value) # <<>>

\* the whitespace json.loads skips before and after a document
JsonSpaces == {" ", TAB, LF, CR}
\* json.loads(json_content): whitespace around the document that is not
\* whitespace of JSON is a JSONDecodeError
json_loads(json_content) ==
    LET text == json_content.text
        before == Len(text) - Len(lstrip(text))
        after == Len(text) - Len(rstrip(text))
        around == {text[i] : i \in (1..before) \cup ((Len(text) - after + 1)..Len(text))}
    IN  IF json_content.json = None \/ ~ (around \subseteq JsonSpaces)
        THEN Raises("JSONDecodeError")
        ELSE ReturnedValue(json_content.json[1])

\* "for seg in segs": the values appended to text_parts
RECURSIVE seg_texts(_)
seg_texts(segs) ==
    IF segs = <<>> THEN ReturnedValue(<<>>)
    ELSE and_then(get(Head(segs), "utf8", Str(<<>>)), LAMBDA text :
         and_then(seg_texts(Tail(segs)), LAMBDA rest :
         ReturnedValue((IF truth(text) /\ text # Str(<<LF>>)
                        THEN <<text>> ELSE <<>>)
                       \o rest)))

\* "for event in events"
RECURSIVE event_texts(_)
event_texts(events) ==
    IF events = <<>> THEN ReturnedValue(<<>>)
    ELSE and_then(get(Head(events), "segs", List(<<>>)), LAMBDA segs :
         and_then(iterate(segs), LAMBDA items :
         and_then(seg_texts(items), LAMBDA texts :
         and_then(event_texts(Tail(events)), LAMBDA rest :
         ReturnedValue(texts \o rest)))))

\* ''.join(text_parts): every part has to be a str
join_parts(text_parts) ==
    IF \E i \in 1..Len(text_parts) : type_name(text_parts[i]) # "str"
    THEN Raises("TypeError")
    ELSE ReturnedValue(join_empty([i \in 1..Len(text_parts) |-> value_of(text_parts[i])]))

\* YouTubeScraper._parse_json3(json_content)
_parse_json3(json_content) ==
    and_then(json_loads(json_content), LAMBDA data :
    and_then(get(data, "events", List(<<>>)), LAMBDA events :
    and_then(iterate(events), LAMBDA items :
    and_then(event_texts(items), LAMBDA text_parts :
    and_then(join_parts(text_parts), LAMBDA full_text :
    ReturnedValue(strip(sub_whitespace(full_text))))))))

WEBVTT == <<"W", "E", "B", "V", "T", "T">>
NOTE == <<"N", "O", "T", "E">>
KindColon == <<"K", "i", "n", "d", ":">>
LanguageColon == <<"L", "a", "n", "g", "u", "a", "g", "e", ":">>
Arrow == <<"-", "-", ">">>

\* one iteration of "for line in lines": the text appended to text_lines,
\* the empty text when the line is skipped
vtt_text_line(line) ==
    bind(strip(line), LAMBDA stripped :
    IF \/ stripped = <<>>
       \/ contains(line, Arrow)
       \/ startswith(stripped, WEBVTT)
       \/ startswith(stripped, NOTE)
       \/ startswith(stripped, KindColon)
       \/ startswith(stripped, LanguageColon)
    THEN <<>>
    ELSE strip(sub_speaker(sub_tags(line))))

\* YouTubeScraper._parse_vtt(vtt_content)
_parse_vtt(vtt_content) ==
    LET lines == split_lines(vtt_content.text)
        text_lines == SelectSeq([i \in 1..Len(lines) |-> vtt_text_line(lines[i])],
                                LAMBDA t : t # <<>>)
    IN  join_space(text_lines)

\* YouTubeScraper._parse_transcript(content): of the exceptions of
\* _parse_json3 it catches json.JSONDecodeError and KeyError
_parse_transcript(content) ==
    bind([content EXCEPT !.text = strip(@)], LAMBDA stripped :
    IF ~ startswith(stripped.text, <<"{">>)
    THEN ReturnedValue(_parse_vtt(stripped))
    ELSE bind(_parse_json3(stripped), LAMBDA parsed :
         IF parsed.raised /\ parsed.exception \in {"JSONDecodeError", "KeyError"}
         THEN ReturnedValue(_parse_vtt(stripped))
         ELSE parsed))

-----------------------------------------------------------------------------
(* The parser calls (SpecParse)                                            *)

MaxCues == 2        \* lines of a cue-format payload
MaxSegs == 3        \* segments of a structured payload, over all its events
MaxCalls == 2       \* calls of a parser with one argument

\* the lines cue-format payloads are put together from: the kind of line,
\* its characters and, for a line with text, the text without its tags,
\* without its label and without the whitespace around it
Cue(cat, line, clean) == [cat |-> cat, line |-> line, clean |-> clean]
CueLines ==
    { Cue("header", WEBVTT, <<>>),
      Cue("blank", <<>>, <<>>),
      Cue("timing", <<"0", ":", "1", " ">> \o Arrow \o <<" ", "0", ":", "2">>, <<>>),
      Cue("speaker hh:mm:ss", <<"S", "T", " ", "0", ":", "0", ":", "1">>, <<>>),
      \* 'ST \u0663:\u0663:\u0663', the digits Arabic-Indic threes
      Cue("speaker hh:mm:ss",
          <<"S", "T", " ", "U+0663", ":", "U+0663", ":", "U+0663">>, <<>>),
      Cue("speaker mm:ss", <<"S", "T", " ", "0", ":", "1">>, <<>>),
      \* 'ST 0:0:1 hi', text after the label
      Cue("speaker hh:mm:ss and text",
          <<"S", "T", " ", "0", ":", "0", ":", "1", " ", "h", "i">>,
          <<"h", "i">>),
      \* '<c>ST 0:0:1</c> hi', a tag before the label
      Cue("speaker hh:mm:ss and text",
          <<"<", "c", ">", "S", "T", " ", "0", ":", "0", ":", "1", "<", "/",
            "c", ">", " ", "h", "i">>,
          <<"h", "i">>),
      \* '<c>', nothing but a tag
      Cue("tag", <<"<", "c", ">">>, <<>>),
      Cue("note", NOTE \o <<" ", "a">>, <<>>),
      \* 'NOTES a', 'Kind: a' and 'Language: a', caption text or metadata
      Cue("note", NOTE \o <<"S", " ", "a">>, <<>>),
      Cue("kind", KindColon \o <<" ", "a">>, <<>>),
      Cue("language", LanguageColon \o <<" ", "a">>, <<>>),
      Cue("text", <<"a">>, <<"a">>),
      Cue("text", <<"<", "c", ">", "b", "<", "/", "c", ">">>, <<"b">>),
      Cue("text", <<NBSP, "b", CR>>, <<"b">>),
      Cue("text", <<"a", " ", " ", "b">>, <<"a", " ", " ", "b">>),
      Cue("text", <<"a", TAB, "b">>, <<"a", TAB, "b">>) }

\* '\n'.join(lines)
RECURSIVE join_lines(_)
join_lines(lines) ==
    IF lines = <<>> THEN <<>>
    ELSE IF Len(lines) = 1 THEN lines[1]
    ELSE lines[1] \o <<LF>> \o join_lines(Tail(lines))

SeqsUpTo(S, n) == UNION {[1..m -> S] : m \in 0..n}

CuePayload(cues) ==
    [text |-> join_lines([i \in 1..Len(cues) |-> cues[i].line]),
     json |-> None, cues |-> cues]
CuePayloads == {CuePayload(cues) : cues \in SeqsUpTo(CueLines, MaxCues)}
                \cup {CuePayload(<<Cue("text", <<"{", "a">>, <<"{", "a">>)>>)}

\* the utf8 texts of the segments
SegTexts == {<<"a">>, <<"b">>, <<LF>>, <<" ", "b", FF, NBSP>>}
Seg(text) == Dict([utf8 |-> Some(Str(text))])
Event(segs) == Dict([segs |-> Some(List(segs))])
Document(events) == Dict([events |-> Some(events)])
\* the documents with the segments segs in one event or split over two
Documents(segs) ==
    {Document(List(<<Event(segs)>>))}
    \cup {Document(List(<<Event(SubSeq(segs, 1, i)),
                          Event(SubSeq(segs, i + 1, Len(segs)))>>)) :
            i \in 0..Len(segs)}
JsonDocuments ==
    UNION {Documents([i \in 1..Len(texts) |-> Seg(texts[i])]) :
              texts \in SeqsUpTo(SegTexts, MaxSegs)}
    \cup {Dict([events |-> None]),
          Document(List(<<Dict([segs |-> None])>>)),
          Document(List(<<Event(<<Dict([utf8 |-> None]), Seg(<<"a">>)>>)>>))}
\* the values that are not of the type _parse_json3 reads them as
Unexpected == {Null, Number(0), Number(5), Str(<<>>), Str(<<"a">>)}
\* the documents that are not the structured format: 'events' that is no
\* list, an event or a segment that is no object, 'segs' that is no list,
\* a 'utf8' that is no str
MalformedDocuments ==
    {Document(v) : v \in Unexpected \cup {Dict([utf8 |-> None])}}
    \cup {Document(List(<<Event(<<Seg(<<"a">>)>>), v>>)) : v \in Unexpected}
    \cup {Document(List(<<Dict([segs |-> Some(v)])>>)) : v \in Unexpected}
    \cup {Document(List(<<Event(<<Seg(<<"a">>), v>>)>>)) : v \in Unexpected}
    \cup {Document(List(<<Event(<<Dict([utf8 |-> Some(v)]), Seg(<<"a">>)>>)>>)) :
             v \in (Unexpected \ {Str(<<>>), Str(<<"a">>)}) \cup {List(<<>>)}}
\* the payload that holds the document between two runs of whitespace
JsonPayloadAround(before, doc, after) ==
    [text |-> before \o <<"{", "...", "}">> \o after, json |-> Some(doc),
     cues |-> <<>>]
JsonPayload(doc) == JsonPayloadAround(<<>>, doc, <<LF>>)
\* '\x0c{...}', '{...}\xa0', ' {...}\r\n'
JsonPayloads ==
    {JsonPayload(doc) : doc \in JsonDocuments \cup MalformedDocuments}
    \cup {JsonPayloadAround(<<FF>>, doc, <<>>) : doc \in Documents(<<Seg(<<"a">>)>>)}
    \cup {JsonPayloadAround(<<>>, Document(v), <<NBSP>>) :
             v \in {Number(0), List(<<Event(<<Seg(<<"b">>)>>)>>)}}
    \cup {JsonPayloadAround(<<" ">>, Document(List(<<Event(<<Seg(<<"a">>)>>)>>)),
                             <<CR, LF>>)}

\* str(n) of a natural number
RECURSIVE str(_)
str(n) ==
    IF n < Len(DigitChars) THEN <<DigitChars[n + 1]>>
    ELSE str(n \div Len(DigitChars)) \o <<DigitChars[(n % Len(DigitChars)) + 1]>>

\* the phrase "<n> <unit> ago", unit in the plural unless n is 1
RelativeText(n, unit) ==
    str(n) \o <<" ">> \o unit \o (IF n = 1 THEN <<>> ELSE <<"s">>)
    \o <<" ", "a", "g", "o">>
RelativeNums == {0, 1, 3, 12}

\* the date texts the date parser is called with
DateTexts ==
    {<<>>,
     \* '2024-01-02T03:04:05Z'
     <<"2", "0", "2", "4", "-", "0", "1", "-", "0", "2", "T", "0", "3", ":", "0", "4", ":", "0", "5", "Z">>,
     \* '2024-01-02T03:04:05.000Z'
     <<"2", "0", "2", "4", "-", "0", "1", "-", "0", "2", "T", "0", "3", ":", "0", "4", ":", "0", "5", ".", "0", "0", "0", "Z">>,
     \* '2024-01-02t03:04:05z'
     <<"2", "0", "2", "4", "-", "0", "1", "-", "0", "2", "t", "0", "3", ":", "0", "4", ":", "0", "5", "z">>,
     \* '2024-01-02'
     <<"2", "0", "2", "4", "-", "0", "1", "-", "0", "2">>,
     \* '2024-1-2'
     <<"2", "0", "2", "4", "-", "1", "-", "2">>,
     \* '2024-01- 2'
     <<"2", "0", "2", "4", "-", "0", "1", "-", " ", "2">>,
     \* 'Jan 2, 2024'
     <<"J", "a", "n", " ", "2", ",", " ", "2", "0", "2", "4">>,
     \* 'January 2, 2024'
     <<"J", "a", "n", "u", "a", "r", "y", " ", "2", ",", " ", "2", "0", "2", "4">>,
     \* '2 January 2024'
     <<"2", " ", "J", "a", "n", "u", "a", "r", "y", " ", "2", "0", "2", "4">>,
     \* '2 Jan 2024'
     <<"2", " ", "J", "a", "n", " ", "2", "0", "2", "4">>,
     \* '  Jan  2, 2024 '
     <<" ", " ", "J", "a", "n", " ", " ", "2", ",", " ", "2", "0", "2", "4", " ">>,
     \* 'jan 02, 2024'
     <<"j", "a", "n", " ", "0", "2", ",", " ", "2", "0", "2", "4">>,
     \* 'May 2, 2024'
     <<"M", "a", "y", " ", "2", ",", " ", "2", "0", "2", "4">>,
     \* 'Feb 29, 2024'
     <<"F", "e", "b", " ", "2", "9", ",", " ", "2", "0", "2", "4">>,
     \* 'Feb 29, 2023'
     <<"F", "e", "b", " ", "2", "9", ",", " ", "2", "0", "2", "3">>,
     \* 'Jan 2,2024'
     <<"J", "a", "n", " ", "2", ",", "2", "0", "2", "4">>,
     \* 'Janu 2, 2024'
     <<"J", "a", "n", "u", " ", "2", ",", " ", "2", "0", "2", "4">>,
     \* 'not a date'
     <<"n", "o", "t", " ", "a", " ", "d", "a", "t", "e">>,
     \* '01/02/2024'
     <<"0", "1", "/", "0", "2", "/", "2", "0", "2", "4">>,
     \* '2 months ago'
     <<"2", " ", "m", "o", "n", "t", "h", "s", " ", "a", "g", "o">>,
     \* '3 Days Ago'
     <<"3", " ", "D", "a", "y", "s", " ", "A", "g", "o">>,
     \* '3days ago'
     <<"3", "d", "a", "y", "s", " ", "a", "g", "o">>,
     \* '3 daysago'
     <<"3", " ", "d", "a", "y", "s", "a", "g", "o">>,
     \* ' 3 days ago'
     <<" ", "3", " ", "d", "a", "y", "s", " ", "a", "g", "o">>,
     \* '3\xa0days\x0cago'
     <<"3", NBSP, "d", "a", "y", "s", FF, "a", "g", "o">>,
     \* '\x0cJan\xa02, 2024'
     <<FF, "J", "a", "n", NBSP, "2", ",", " ", "2", "0", "2", "4">>,
     \* '\u0663 days ago', the digit an Arabic-Indic three
     <<"U+0663", " ", "d", "a", "y", "s", " ", "a", "g", "o">>,
     \* '3 WEE\u212aS AGO', the K a Kelvin sign
     <<"3", " ", "W", "E", "E", "U+212A", "S", " ", "A", "G", "O">>,
     \* '3 m\u0130nutes ago', the I a capital I with a dot above
     <<"3", " ", "m", "U+0130", "n", "u", "t", "e", "s", " ", "a", "g", "o">>,
     \* '\u0662\u0660\u0662\u0664-01-1\u0662', Arabic-Indic 2024 and 2
     <<"U+0662", "U+0660", "U+0662", "U+0664", "-", "0", "1", "-", "1", "U+0662">>,
     \* '2024-01-\u0662'
     <<"2", "0", "2", "4", "-", "0", "1", "-", "U+0662">>,
     \* '3 hours agone'
     <<"3", " ", "h", "o", "u", "r", "s", " ", "a", "g", "o", "n", "e">>,
     \* '0003 weeks ago'
     <<"0", "0", "0", "3", " ", "w", "e", "e", "k", "s", " ", "a", "g", "o">>,
     \* '800000 days ago'
     <<"8", "0", "0", "0", "0", "0", " ", "d", "a", "y", "s", " ", "a", "g", "o">>,
     \* '1000000000 days ago'
     <<"1", "0", "0", "0", "0", "0", "0", "0", "0", "0", " ", "d", "a", "y", "s", " ", "a", "g", "o">>,
     \* '99999999999 hours ago'
     <<"9", "9", "9", "9", "9", "9", "9", "9", "9", "9", "9", " ", "h", "o", "u", "r", "s", " ", "a", "g", "o">>,
     \* '2000000000 minutes ago'
     <<"2", "0", "0", "0", "0", "0", "0", "0", "0", "0", " ", "m", "i", "n", "u", "t", "e", "s", " ", "a", "g", "o">>}
    \cup {RelativeText(n, units[u]) : n \in RelativeNums, u \in 1..Len(units)}
\* the instants datetime.now() returns during a call of the date parser:
\* Epoch, and an hour into the next day
Nows == {0, SecondsPerDay + SecondsPerHour}

ParserCall(fn, arg) == [fn |-> fn, arg |-> arg]
ParserCalls ==
    {ParserCall("_parse_transcript", arg) : arg \in CuePayloads \cup JsonPayloads}
    \cup {ParserCall("_parse_vtt", arg) : arg \in CuePayloads}
    \cup {ParserCall("_parse_json3", arg) : arg \in JsonPayloads}
    \cup {ParserCall("_parse_date", [date_str |-> d, now |-> t]) :
             d \in DateTexts, t \in Nows}

\* the list text_lines when _parse_vtt begins: "text_lines = []", whatever a
\* call before left in it
text_lines_default_argument(leftover) == leftover
text_lines_at_entry(leftover) == <<>>

\* _parse_vtt begins: lines = vtt_content.split('\n') and text_lines = []
vtt_begins(vtt_content) ==
    /\ pc' = "vtt"
    /\ all_items' = split_lines(vtt_content.text)
    /\ listing' = text_lines_at_entry(listing)
    /\ idx' = 1

\* _parse_transcript, statement by statement: `entry` is its local content,
\* all_items the lines of _parse_vtt, listing its text_lines and idx the
\* place of "for line in lines".  The first statements: content.strip() and
\* content.startswith('{')
ParseTranscript ==
    /\ call.fn = "_parse_transcript"
    /\ pc = "done"
    /\ Len(result) < MaxCalls
    /\ entry' = Some([call.arg EXCEPT !.text = strip(@)])
    /\ IF startswith(strip(call.arg.text), <<"{">>)
       THEN /\ pc' = "json3"
            /\ UNCHANGED <<all_items, listing, idx>>
       ELSE vtt_begins(entry'[1])
    /\ UNCHANGED <<clock, op, j, cutoff_time, k, results, ret, drawn, log>>
    /\ UNCHANGED <<call, result, procs>>
    /\ UNCHANGED cacheVars

\* _parse_transcript: "try: return _parse_json3(content)", and the fall back
\* to _parse_vtt on json.JSONDecodeError and KeyError
TryJson3 ==
    /\ call.fn = "_parse_transcript"
    /\ pc = "json3"
    /\ LET parsed == _parse_json3(entry[1])
       IN  IF parsed.raised /\ parsed.exception \in {"JSONDecodeError", "KeyError"}
           THEN /\ vtt_begins(entry[1])
                /\ UNCHANGED <<entry, result>>
           ELSE /\ result' = Append(result, parsed)
                /\ pc' = "done"
                /\ entry' = None
                /\ UNCHANGED <<all_items, listing, idx>>
    /\ UNCHANGED <<clock, op, j, cutoff_time, k, results, ret, drawn, log>>
    /\ UNCHANGED <<call, procs>>
    /\ UNCHANGED cacheVars

\* _parse_vtt: one iteration of "for line in lines"
VttLine ==
    /\ call.fn = "_parse_transcript"
    /\ pc = "vtt"
    /\ idx <= Len(all_items)
    /\ listing' = IF vtt_text_line(all_items[idx]) # <<>>
                  THEN Append(listing, vtt_text_line(all_items[idx]))
                  ELSE listing
    /\ idx' = idx + 1
    /\ UNCHANGED <<clock, op, pc, j, cutoff_time, entry, all_items, k, results,
                   ret, drawn, log>>
    /\ UNCHANGED <<call, result, procs>>
    /\ UNCHANGED cacheVars

\* _parse_vtt: return ' '.join(text_lines), which _parse_transcript returns;
\* the locals are gone, and the list keeps what the call left in it until
\* the next call's "text_lines = []"
VttReturn ==
    /\ call.fn = "_parse_transcript"
    /\ pc = "vtt"
    /\ idx > Len(all_items)
    /\ result' = Append(result, ReturnedValue(join_space(listing)))
    /\ pc' = "done"
    /\ entry' = None
    /\ all_items' = <<>>
    /\ idx' = 1
    /\ UNCHANGED <<clock, op, j, cutoff_time, listing, k, results, ret, drawn,
                   log>>
    /\ UNCHANGED <<call, procs>>
    /\ UNCHANGED cacheVars

ParseVtt ==
    /\ call.fn = "_parse_vtt"
    /\ Len(result) < MaxCalls
    /\ result' = Append(result, ReturnedValue(_parse_vtt(call.arg)))
    /\ UNCHANGED <<call, procs>>
    /\ UNCHANGED cacheVars
    /\ UNCHANGED runVars

ParseJson3 ==
    /\ call.fn = "_parse_json3"
    /\ Len(result) < MaxCalls
    /\ result' = Append(result, _parse_json3(call.arg))
    /\ UNCHANGED <<call, procs>>
    /\ UNCHANGED cacheVars
    /\ UNCHANGED runVars

ParseDate ==
    /\ call.fn = "_parse_date"
    /\ Len(result) < MaxCalls
    /\ result' = Append(result, _parse_date(call.arg.date_str, call.arg.now))
    /\ UNCHANGED <<call, procs>>
    /\ UNCHANGED cacheVars
    /\ UNCHANGED runVars

InitParse ==
    /\ IdleCache
    /\ IdleRun
    /\ call \in ParserCalls
    /\ result = <<>>
    /\ procs = <<>>

\* between the calls of the parser and between its statements the cache
\* changes: another part of the program stores a payload or clears the cache
NextParse ==
    \/ ParseTranscript
    \/ TryJson3
    \/ VttLine
    \/ VttReturn
    \/ ParseVtt
    \/ ParseJson3
    \/ ParseDate
    \/ set_cached("u1", <<"a">>, "")
    \/ clear_cache

SpecParse == InitParse /\ [][NextParse]_vars

-----------------------------------------------------------------------------
(* The cached fetches (SpecFetch): the part of a listing fetch that        *)
(* obtains the payload, YouTubeScraper.fetch_channel_videos,               *)
(* AnthropicScraper._fetch_feed, SubstackScraper.fetch_articles (a feed,   *)
(* kind "xml") and OpenAINewsScraper._fetch_page_html (a page, kind        *)
(* "html"), with the cache between them.  A fetch reads the cache, and on  *)
(* a miss waits for the network before it stores the payload; the fetches  *)
(* of callers that overlap (threads, processes that share .cache) wait at  *)
(* the same time.                                                          *)

MaxFetches == 3     \* fetches and clear_cache calls of one behaviour

\* a fetch of (url, kind) that missed the cache and waits for the answer to
\* its request; began is the number of fetches and clear_cache calls that
\* had finished when it read the cache
Waiter(url, kind, began) == [url |-> url, kind |-> kind, began |-> began]

\* an entry of the history: a fetch of (url, kind) that did or did not send
\* a request (network) and raised or returned the payload `value`; or a
\* clear_cache call
Fetched(url, kind, network, raised, value, began) ==
    [fn |-> "fetch", url |-> url, kind |-> kind, network |-> network,
     raised |-> raised, value |-> value, began |-> began]
Cleared ==
    [fn |-> "clear_cache", url |-> "", kind |-> "", network |-> FALSE,
     raised |-> FALSE, value |-> None, began |-> Len(result)]

\* cached_content = get_cached(rss_url, "xml"); if cached_content: parse it;
\* if feed.bozo: raise; else: requests.get(rss_url, timeout=30), answered
\* in Response
FetchFeed(url) ==
    /\ Len(result) + Len(procs) < MaxFetches
    /\ LET cached_content == cached_value(files, url, "xml")
       IN  /\ last' = Call("get", url, "xml", <<>>, cached_content)
           /\ IF truthy(cached_content)
              THEN /\ result' = Append(result,
                         Fetched(url, "xml", FALSE, bozo(cached_content[1]),
                                 cached_content, Len(result)))
                   /\ procs' = procs
              ELSE /\ procs' = Append(procs, Waiter(url, "xml", Len(result)))
                   /\ result' = result
    /\ UNCHANGED <<environ, files, call>>
    /\ UNCHANGED runVars

\* cached_html = get_cached(url, "html"); if cached_html: return it; else
\* load the page, answered in Response
FetchPage(url) ==
    /\ Len(result) + Len(procs) < MaxFetches
    /\ LET cached_html == cached_value(files, url, "html")
       IN  /\ last' = Call("get", url, "html", <<>>, cached_html)
           /\ IF truthy(cached_html)
              THEN /\ result' = Append(result,
                         Fetched(url, "html", FALSE, FALSE, cached_html,
                                 Len(result)))
                   /\ procs' = procs
              ELSE /\ procs' = Append(procs, Waiter(url, "html", Len(result)))
                   /\ result' = result
    /\ UNCHANGED <<environ, files, call>>
    /\ UNCHANGED runVars

\* the list without its p-th element
without(list, p) == SubSeq(list, 1, p - 1) \o SubSeq(list, p + 1, Len(list))

\* the network answers the fetch waiting at p.  The request fails
\* (raise_for_status, a timeout, a status other than 200) and the fetch
\* raises; or it returns a payload: set_cached(url, payload, kind), then the
\* feed is parsed (if feed.bozo: raise), the page returned
Response(p) ==
    /\ p \in 1..Len(procs)
    /\ \E answer \in {None} \cup {Some(payload) : payload \in Bodies} :
          IF answer = None
          THEN /\ result' = Append(result,
                     Fetched(procs[p].url, procs[p].kind, TRUE, TRUE, None,
                             procs[p].began))
               /\ UNCHANGED <<files, last>>
          ELSE /\ files' = stored_files(files, procs[p].url, answer[1],
                                        procs[p].kind)
               /\ last' = Call("set", procs[p].url, procs[p].kind, answer[1],
                               None)
               /\ result' = Append(result,
                     Fetched(procs[p].url, procs[p].kind, TRUE,
                             procs[p].kind = "xml" /\ bozo(answer[1]),
                             answer, procs[p].began))
    /\ procs' = without(procs, p)
    /\ UNCHANGED <<environ, call>>
    /\ UNCHANGED runVars

\* clear_cache() between two fetches
ClearBetweenFetches ==
    /\ Len(result) + Len(procs) < MaxFetches
    /\ files' = NoFiles
    /\ last' = Call("clear", "", "", <<>>, Some(Cardinality(DOMAIN files)))
    /\ result' = Append(result, Cleared)
    /\ UNCHANGED <<environ, call, procs>>
    /\ UNCHANGED runVars

InitFetch ==
    /\ environ \in EnvValues
    /\ files = NoFiles
    /\ last = Call("start", "", "", <<>>, None)
    /\ IdleRun
    /\ call = [fn |-> "fetch", arg |-> <<>>]
    /\ result = <<>>
    /\ procs = <<>>

NextFetch ==
    \/ \E url \in Urls : FetchFeed(url)
    \/ \E url \in Urls : FetchPage(url)
    \/ \E p \in 1..MaxFetches : Response(p)
    \/ ClearBetweenFetches

SpecFetch == InitFetch /\ [][NextFetch]_vars

-----------------------------------------------------------------------------
(* Concurrent cache calls (SpecRace): get_cached, set_cached and           *)
(* clear_cache on one key called by several threads or processes at once,  *)
(* each call a sequence of file system operations                          *)
(*                                                                         *)
(* Path.write_text opens the file for writing, which truncates it, and     *)
(* writes the bytes of the text when it closes the file (one write for a   *)
(* text shorter than the buffer).  get_cached tests exists(); read_text    *)
(* then opens the file, asks its size and reads until a read returns no    *)
(* byte, and decodes what the reads returned.  clear_cache lists the       *)
(* directory, tests is_file() and unlinks.  A file that is unlinked while  *)
(* calls hold it open stays with them: `result` holds the bytes of such    *)
(* files, and a call's fd is 0 for the file the directory names and n for  *)
(* result[n].                                                              *)

MaxProcs == 3       \* concurrent calls

\* the key the calls share
RaceUrl == "u1"
RaceSuffix == "xml"
RaceKey == get_cache_key(RaceUrl, RaceSuffix)
\* the contents the writers store
RaceContents == {<<"a", "a">>, <<"b">>, <<"U+00E9">>}

\* a call in progress: pc is the statement it is at, fd the file it holds
\* open, buffer the bytes its reads have returned, bufsize the size of its
\* read buffer, ret the value a finished get_cached returned and raised the
\* exception that left the call
Proc(fn, content) ==
    [fn |-> fn, content |-> content, pc |-> "start", fd |-> None,
     buffer |-> <<>>, bufsize |-> 0, ret |-> None, raised |-> None]
Procs ==
    {Proc("get", <<>>), Proc("clear", <<>>)}
        \cup {Proc("set", content) : content \in RaceContents}

\* open(path, 'w'): the file exists and is empty
truncated(dir, name) ==
    [n \in DOMAIN dir \cup {name} |-> IF n = name THEN <<>> ELSE dir[n]]
\* write(fd, bytes) at the start of a file that holds `held`, by a writer
\* that has written nothing yet: the bytes replace the first Len(bytes) of
\* the file
overwritten(held, bytes) == bytes \o SubSeq(held, Len(bytes) + 1, Len(held))
written(dir, name, bytes) == [dir EXCEPT ![name] = overwritten(@, bytes)]
\* the bytes of the file a call holds open
held_bytes(p) ==
    IF procs[p].fd = Some(0) THEN files[RaceKey] ELSE result[procs[p].fd[1]]

\* FileIO.readall: the buffer a file of `size` bytes is read into at first,
\* and the buffer that replaces a full one (new_buffersize: the bytes read
\* so far plus an eighth of them above LARGE_BUFFER_CUTOFF_SIZE, plus 256
\* more than them up to it, and plus no less than SMALLCHUNK)
SMALLCHUNK == 8192
LARGE_BUFFER_CUTOFF_SIZE == 65536
first_bufsize(size) == IF size > 0 THEN size + 1 ELSE SMALLCHUNK
grown_bufsize(bytes_read) ==
    LET addend == IF bytes_read > LARGE_BUFFER_CUTOFF_SIZE
                  THEN bytes_read \div 8
                  ELSE 256 + bytes_read
    IN  bytes_read + (IF addend < SMALLCHUNK THEN SMALLCHUNK ELSE addend)
\* read(fd, n) at the position pos of a file that holds `held`
read(held, pos, n) ==
    SubSeq(held, pos + 1, IF Len(held) < pos + n THEN Len(held) ELSE pos + n)

\* set_cached, first half: cache_path.write_text opens the file
SetOpen(p) ==
    /\ procs[p].fn = "set" /\ procs[p].pc = "start"
    /\ IF is_cache_enabled
       THEN /\ files' = truncated(files, RaceKey)
            /\ procs' = [procs EXCEPT ![p].pc = "opened", ![p].fd = Some(0)]
            /\ last' = last
       ELSE /\ files' = files
            /\ procs' = [procs EXCEPT ![p].pc = "done"]
            /\ last' = Call("set", RaceUrl, RaceSuffix, procs[p].content, None)
    /\ UNCHANGED <<environ, call, result>>
    /\ UNCHANGED runVars

\* set_cached, second half: write_text writes the text and closes the file
SetWrite(p) ==
    /\ procs[p].fn = "set" /\ procs[p].pc = "opened"
    /\ IF procs[p].fd = Some(0)
       THEN /\ files' = written(files, RaceKey, write_text(procs[p].content))
            /\ result' = result
       ELSE /\ result' = [result EXCEPT ![procs[p].fd[1]] =
                             overwritten(@, write_text(procs[p].content))]
            /\ files' = files
    /\ procs' = [procs EXCEPT ![p].pc = "done", ![p].fd = None]
    /\ last' = Call("set", RaceUrl, RaceSuffix, procs[p].content, None)
    /\ UNCHANGED <<environ, call>>
    /\ UNCHANGED runVars

\* get_cached: is_cache_enabled() and cache_path.exists()
GetExists(p) ==
    /\ procs[p].fn = "get" /\ procs[p].pc = "start"
    /\ IF is_cache_enabled /\ RaceKey \in DOMAIN files
       THEN /\ procs' = [procs EXCEPT ![p].pc = "exists"]
            /\ last' = last
       ELSE /\ procs' = [procs EXCEPT ![p].pc = "done"]
            /\ last' = Call("get", RaceUrl, RaceSuffix, <<>>, None)
    /\ UNCHANGED <<environ, files, call, result>>
    /\ UNCHANGED runVars

\* get_cached: read_text opens the file, FileNotFoundError if it is gone
GetOpen(p) ==
    /\ procs[p].fn = "get" /\ procs[p].pc = "exists"
    /\ procs' = IF RaceKey \in DOMAIN files
                THEN [procs EXCEPT ![p].pc = "opened", ![p].fd = Some(0)]
                ELSE [procs EXCEPT ![p].pc = "done",
                                   ![p].raised = Some("FileNotFoundError")]
    /\ UNCHANGED <<environ, files, last, call, result>>
    /\ UNCHANGED runVars

\* get_cached: the read asks the size of the file for its buffer
GetStat(p) ==
    /\ procs[p].fn = "get" /\ procs[p].pc = "opened"
    /\ procs' = [procs EXCEPT ![p].pc = "read",
                              ![p].bufsize = first_bufsize(Len(held_bytes(p)))]
    /\ UNCHANGED <<environ, files, last, call, result>>
    /\ UNCHANGED runVars

\* the call once its reads have returned the bytes: they are decoded, and
\* get_cached returns the text unless UnicodeDecodeError leaves it
after_reads(proc) ==
    bind(read_bytes_as_text(proc.buffer), LAMBDA outcome :
        [proc EXCEPT !.pc = "done", !.fd = None,
                     !.ret = IF outcome.raised THEN None
                             ELSE Some(outcome.value),
                     !.raised = IF outcome.raised THEN Some(outcome.exception)
                                ELSE None])

\* get_cached: one read of the loop of the read; a read that returns no byte
\* ends it, and return cache_path.read_text(encoding='utf-8') returns
GetRead(p) ==
    /\ procs[p].fn = "get" /\ procs[p].pc = "read"
    /\ LET bytes_read == Len(procs[p].buffer)
           bufsize == IF bytes_read >= procs[p].bufsize
                      THEN grown_bufsize(bytes_read)
                      ELSE procs[p].bufsize
           chunk == read(held_bytes(p), bytes_read, bufsize - bytes_read)
       IN  IF chunk # <<>>
           THEN /\ procs' = [procs EXCEPT ![p].buffer = @ \o chunk,
                                          ![p].bufsize = bufsize]
                /\ last' = last
           ELSE /\ procs' = [procs EXCEPT ![p] = after_reads(@)]
                /\ last' = IF procs'[p].raised # None THEN last
                           ELSE Call("get", RaceUrl, RaceSuffix, <<>>,
                                     procs'[p].ret)
    /\ UNCHANGED <<environ, files, call, result>>
    /\ UNCHANGED runVars

\* clear_cache: cache_dir.glob("*") lists the directory
ClearGlob(p) ==
    /\ procs[p].fn = "clear" /\ procs[p].pc = "start"
    /\ IF RaceKey \in DOMAIN files
       THEN /\ procs' = [procs EXCEPT ![p].pc = "listed"]
            /\ last' = last
       ELSE /\ procs' = [procs EXCEPT ![p].pc = "done", ![p].ret = Some(0)]
            /\ last' = Call("clear", "", "", <<>>, Some(0))
    /\ UNCHANGED <<environ, files, call, result>>
    /\ UNCHANGED runVars

\* clear_cache: file.is_file()
ClearIsFile(p) ==
    /\ procs[p].fn = "clear" /\ procs[p].pc = "listed"
    /\ IF RaceKey \in DOMAIN files
       THEN /\ procs' = [procs EXCEPT ![p].pc = "is_file"]
            /\ last' = last
       ELSE /\ procs' = [procs EXCEPT ![p].pc = "done", ![p].ret = Some(0)]
            /\ last' = Call("clear", "", "", <<>>, Some(0))
    /\ UNCHANGED <<environ, files, call, result>>
    /\ UNCHANGED runVars

\* the calls that hold the file the directory names open
holders == {q \in 1..Len(procs) : procs[q].fd = Some(0)}

\* clear_cache: file.unlink(), FileNotFoundError if the file is gone; the
\* calls that hold the file open keep it
ClearUnlink(p) ==
    /\ procs[p].fn = "clear" /\ procs[p].pc = "is_file"
    /\ IF RaceKey \in DOMAIN files
       THEN /\ files' = NoFiles
            /\ result' = IF holders = {} THEN result
                         ELSE Append(result, files[RaceKey])
            /\ procs' = [q \in 1..Len(procs) |->
                           IF q = p
                           THEN [procs[q] EXCEPT !.pc = "done",
                                                 !.ret = Some(1)]
                           ELSE IF q \in holders
                           THEN [procs[q] EXCEPT !.fd = Some(Len(result) + 1)]
                           ELSE procs[q]]
            /\ last' = Call("clear", "", "", <<>>, Some(1))
       ELSE /\ procs' = [procs EXCEPT ![p].pc = "done",
                                      ![p].raised = Some("FileNotFoundError")]
            /\ UNCHANGED <<files, result, last>>
    /\ UNCHANGED <<environ, call>>
    /\ UNCHANGED runVars

InitRace ==
    /\ environ \in EnvValues
    /\ files = NoFiles
    /\ last = Call("start", "", "", <<>>, None)
    /\ IdleRun
    /\ call = [fn |-> "race", arg |-> <<>>]
    /\ result = <<>>
    /\ procs \in [1..MaxProcs -> Procs]

NextRace ==
    \/ \E p \in 1..Len(procs) : SetOpen(p)
    \/ \E p \in 1..Len(procs) : SetWrite(p)
    \/ \E p \in 1..Len(procs) : GetExists(p)
    \/ \E p \in 1..Len(procs) : GetOpen(p)
    \/ \E p \in 1..Len(procs) : GetStat(p)
    \/ \E p \in 1..Len(procs) : GetRead(p)
    \/ \E p \in 1..Len(procs) : ClearGlob(p)
    \/ \E p \in 1..Len(procs) : ClearIsFile(p)
    \/ \E p \in 1..Len(procs) : ClearUnlink(p)

SpecRace == InitRace /\ [][NextRace]_vars

-----------------------------------------------------------------------------
(* The browser sessions (SpecBrowser): OpenAINewsScraper._fetch_page_html, *)
(* fetch_articles up to the extraction of the page's articles, and the     *)
(* convert_url_to_markdown of both scrapers, statement by statement,       *)
(* called one after the other.  A session is what "with sync_playwright()  *)
(* as p" acquires: the Playwright driver.  The browser launched in it is   *)
(* recorded as the code leaves it: "open" from chromium.launch until a     *)
(* browser.close() statement runs.                                         *)

MaxOperations == 2      \* operations called one after the other


\* the statements of the with block of a method, in their order
Statements(block) ==
    CASE block = "_fetch_page_html" ->
           <<"launch", "new_context", "new_page", "goto", "wait_for_timeout",
             "wait_for_selector", "except: wait_for_selector", "content",
             "close">>
      [] block = "fetch_articles" ->
           <<"launch", "new_page", "set_content", "evaluate", "close">>
      [] block = "convert_url_to_markdown" ->
           <<"launch", "new_context", "new_page", "goto", "wait_for_timeout",
             "content", "close">>

\* the operations, and the method whose with block an operation runs first
BrowserOperations ==
    {"OpenAINewsScraper._fetch_page_html", "OpenAINewsScraper.fetch_articles",
     "OpenAINewsScraper.convert_url_to_markdown",
     "AnthropicScraper.convert_url_to_markdown"}
first_block(fn) ==
    IF fn \in {"OpenAINewsScraper._fetch_page_html",
               "OpenAINewsScraper.fetch_articles"}
    THEN "_fetch_page_html"
    ELSE "convert_url_to_markdown"

\* a session: the Playwright driver and the browser launched with it
Session(playwright, browser) == [playwright |-> playwright, browser |-> browser]
\* sync_playwright().__enter__()
enter(sessions) == Append(sessions, Session("started", "none"))
\* sync_playwright().__exit__() stops the driver; no statement of the
\* repository closes the browser there
exit(session) == [session EXCEPT !.playwright = "stopped"]
\* a block that stops the driver with its last statement instead of a with
\* statement: an exception leaves the block without the stop
stop_as_last_statement(session, raising) ==
    IF raising THEN session ELSE exit(session)
\* the with statement: __exit__ runs when the block ends and when an
\* exception leaves the block
with_statement(session, raising) == exit(session)

\* the operation in progress: the method whose block runs, the position
\* ("start": before the cache check, "enter": before the with statement,
\* "block": before statement n of the block, "exit": at the end of the
\* block, "after": behind the block), whether an exception is on its way,
\* whether the cache answered, and the page's HTML
Operation(fn, block, url, at, n, raising, cached, html_content) ==
    [fn |-> fn, block |-> block, url |-> url, at |-> at, n |-> n,
     raising |-> raising, cached |-> cached, html_content |-> html_content]
NoOperation == Operation("", "", "", "idle", 0, FALSE, FALSE, None)
\* the outcome of an operation: what it returned, or the statement that raised
Outcome(raised, at, value) ==
    [fn |-> call.fn, url |-> call.url, raised |-> raised, at |-> at,
     value |-> value]

\* the session of the block in progress after a change of its browser
with_browser(sessions, browser) ==
    [sessions EXCEPT ![Len(sessions)].browser = browser]

\* an operation is called
Begin(fn, url) ==
    /\ call = NoOperation
    /\ Len(result) < MaxOperations
    /\ call' = Operation(fn, first_block(fn),
                         IF fn = "OpenAINewsScraper.fetch_articles"
                         THEN NEWS_URL ELSE url,
                         "start", 0, FALSE, FALSE, None)
    /\ UNCHANGED <<result, procs>>
    /\ UNCHANGED cacheVars
    /\ UNCHANGED runVars

\* cached_html = get_cached(url, "html"); if cached_html: ...
CacheCheck ==
    /\ call.at = "start"
    /\ LET cached_html == cached_value(files, call.url, "html")
       IN  /\ last' = Call("get", call.url, "html", <<>>, cached_html)
           /\ call' = IF truthy(cached_html)
                      THEN [call EXCEPT !.at = "after", !.cached = TRUE,
                                        !.html_content = cached_html]
                      ELSE [call EXCEPT !.at = "enter"]
    /\ UNCHANGED <<environ, files, result, procs>>
    /\ UNCHANGED runVars

\* with sync_playwright() as p:
EnterWith ==
    /\ call.at = "enter"
    /\ procs' = enter(procs)
    /\ call' = [call EXCEPT !.at = "block", !.n = 1]
    /\ UNCHANGED result
    /\ UNCHANGED cacheVars
    /\ UNCHANGED runVars

\* the operation behind the statement it is at; a wait_for_selector that
\* returned skips its except clause
behind(operation) ==
    LET next == IF Statements(operation.block)[operation.n] = "wait_for_selector"
                THEN operation.n + 2 ELSE operation.n + 1
    IN  IF next > Len(Statements(operation.block))
        THEN [operation EXCEPT !.at = "exit", !.n = 0]
        ELSE [operation EXCEPT !.n = next]

\* a statement of the block runs to its end
Statement ==
    /\ call.at = "block"
    /\ ~ call.raising
    /\ LET statement == Statements(call.block)[call.n]
       IN  CASE statement = "launch" ->
                  /\ procs' = with_browser(procs, "open")
                  /\ call' = behind(call)
             [] statement = "close" ->
                  /\ procs' = with_browser(procs, "closed")
                  /\ call' = behind(call)
             [] statement = "content" ->
                  /\ procs' = procs
                  /\ \E html_content \in Bodies :
                        call' = [behind(call) EXCEPT
                                    !.html_content = Some(html_content)]
             [] OTHER ->
                  /\ procs' = procs
                  /\ call' = behind(call)
    /\ UNCHANGED result
    /\ UNCHANGED cacheVars
    /\ UNCHANGED runVars

\* the statements that can raise: every call of Playwright, the fixed wait
\* page.wait_for_timeout included (the page or the browser can be gone)
CanRaise(statement) ==
    \E block \in {"_fetch_page_html", "fetch_articles", "convert_url_to_markdown"} :
       \E n \in 1..Len(Statements(block)) : Statements(block)[n] = statement

\* a statement of the block raises: the first wait_for_selector of
\* _fetch_page_html is inside try/except, everything else leaves the block
StatementRaises ==
    /\ call.at = "block"
    /\ ~ call.raising
    /\ CanRaise(Statements(call.block)[call.n])
    /\ call' = IF Statements(call.block)[call.n] = "wait_for_selector"
               THEN [call EXCEPT !.n = @ + 1]
               ELSE [call EXCEPT !.raising = TRUE]
    /\ UNCHANGED <<result, procs>>
    /\ UNCHANGED cacheVars
    /\ UNCHANGED runVars

\* page.goto of _fetch_page_html answers without a response or with a status
\* other than 200: browser.close(), raise ValueError
StatusNot200 ==
    /\ call.block = "_fetch_page_html"
    /\ call.at = "block"
    /\ Statements(call.block)[call.n] = "goto"
    /\ ~ call.raising
    /\ procs' = with_browser(procs, "closed")
    /\ call' = [call EXCEPT !.raising = TRUE]
    /\ UNCHANGED result
    /\ UNCHANGED cacheVars
    /\ UNCHANGED runVars

\* control leaves the with block, at its end or with the exception
ExitWith ==
    /\ \/ call.at = "exit"
       \/ call.at = "block" /\ call.raising
    /\ procs' = [procs EXCEPT ![Len(procs)] = with_statement(@, call.raising)]
    /\ IF call.raising
       THEN /\ result' = Append(result, Outcome(TRUE, Statements(call.block)[call.n], None))
            /\ call' = NoOperation
       ELSE /\ result' = result
            /\ call' = [call EXCEPT !.at = "after"]
    /\ UNCHANGED cacheVars
    /\ UNCHANGED runVars

\* behind the block: set_cached(url, html_content, "html") unless the cache
\* answered; _fetch_page_html returns the HTML, to fetch_articles when that
\* called it; fetch_articles goes on with the extracted articles;
\* convert_url_to_markdown converts the HTML, which can raise
Return ==
    /\ call.at = "after"
    /\ IF call.block = "fetch_articles" \/ call.cached
       THEN UNCHANGED <<files, last>>
       ELSE /\ files' = stored_files(files, call.url, call.html_content[1], "html")
            /\ last' = Call("set", call.url, "html", call.html_content[1], None)
    /\ IF call.fn = "OpenAINewsScraper.fetch_articles" /\ call.block = "_fetch_page_html"
       THEN /\ call' = [call EXCEPT !.block = "fetch_articles", !.at = "enter",
                                  !.cached = FALSE]
            /\ result' = result
       ELSE /\ call' = NoOperation
            /\ \/ result' = Append(result, Outcome(FALSE, "", call.html_content))
               \/ /\ call.block = "convert_url_to_markdown"
                  /\ result' = Append(result, Outcome(TRUE, "convert", None))
    /\ UNCHANGED <<environ, procs>>
    /\ UNCHANGED runVars

InitBrowser ==
    /\ environ \in EnvValues
    /\ files = NoFiles
    /\ last = Call("start", "", "", <<>>, None)
    /\ IdleRun
    /\ call = NoOperation
    /\ result = <<>>
    /\ procs = <<>>

NextBrowser ==
    \/ \E fn \in BrowserOperations, url \in Urls : Begin(fn, url)
    \/ CacheCheck
    \/ EnterWith
    \/ Statement
    \/ StatementRaises
    \/ StatusNot200
    \/ ExitWith
    \/ Return

SpecBrowser == InitBrowser /\ [][NextBrowser]_vars

-----------------------------------------------------------------------------
(* YouTubeScraper.get_transcript (SpecTranscript): calls for one video,    *)
(* one after the other or overlapping, each in the steps of its two waits  *)
(* for the network, with the cache between them.  The video's info is      *)
(* what yt-dlp's extract_info returns: the dicts 'subtitles' (manual       *)
(* tracks) and 'automatic_captions', language -> list of formats, written   *)
(* as the sequence of their items in the order of the dict.                *)

MaxTranscripts == 2     \* get_transcript calls of one behaviour

Langs == {"en", "de"}
VideoIds == {"v1"}
\* the languages argument: left out, a language without tracks, two languages
RequestedLanguages == {None, Some(<<"fr">>), Some(<<"de", "en">>)}

Track(lang, captions) == [lang |-> lang, formats |-> captions]
Format(url) == [url |-> url]
TrackUrl(kind, lang) == [kind |-> kind, lang |-> lang]
\* the format lists of a track: empty, one format with its URL, a format
\* without 'url' in front of it
FormatLists(kind, lang) ==
    {<<>>,
     <<Format(Some(TrackUrl(kind, lang)))>>,
     <<Format(None), Format(Some(TrackUrl(kind, lang)))>>}
TrackDicts(kind) ==
    {<<>>}
    \cup UNION {{<<Track(lang, captions)>> : captions \in FormatLists(kind, lang)} :
                  lang \in Langs}
    \cup UNION {UNION {{<<Track(one, first), Track(other, second)>> :
                           first \in FormatLists(kind, one),
                           second \in FormatLists(kind, other)} :
                         other \in Langs \ {one}} :
                  one \in Langs}
\* the infos of videos with at most as many tracks as there are languages
Infos ==
    {info \in [subtitles : TrackDicts("manual"),
               automatic_captions : TrackDicts("auto")] :
        Len(info.subtitles) + Len(info.automatic_captions) <= Cardinality(Langs)}

\* lang in tracks; tracks[lang]
has(tracks, lang) == \E i \in 1..Len(tracks) : tracks[i].lang = lang
lookup(tracks, lang) ==
    tracks[CHOOSE i \in 1..Len(tracks) : tracks[i].lang = lang].formats

\* {**automatic_captions, **subtitles}: the keys of automatic_captions in
\* their order, then the other keys of subtitles; the value of subtitles
\* where both have the key
merge(automatic_captions, subtitles) ==
    [i \in 1..Len(automatic_captions) |->
        IF has(subtitles, automatic_captions[i].lang)
        THEN Track(automatic_captions[i].lang,
                   lookup(subtitles, automatic_captions[i].lang))
        ELSE automatic_captions[i]]
    \o SelectSeq(subtitles, LAMBDA track : ~ has(automatic_captions, track.lang))

\* "for lang in languages": transcript_url behind the loop; [0] of an empty
\* list raises IndexError
RECURSIVE preferred(_, _, _)
preferred(all_subtitles, languages, transcript_url) ==
    IF languages = <<>> THEN ReturnedValue(transcript_url)
    ELSE IF ~ has(all_subtitles, Head(languages))
    THEN preferred(all_subtitles, Tail(languages), transcript_url)
    ELSE LET captions == lookup(all_subtitles, Head(languages))
         IN  IF captions = <<>> THEN Raises("IndexError")
             ELSE IF captions[1].url # None THEN ReturnedValue(captions[1].url)
             ELSE preferred(all_subtitles, Tail(languages), captions[1].url)

\* "for lang, formats in all_subtitles.items()": transcript_url behind the loop
RECURSIVE available(_, _)
available(all_subtitles, transcript_url) ==
    IF all_subtitles = <<>> THEN transcript_url
    ELSE IF Head(all_subtitles).formats = <<>>
    THEN available(Tail(all_subtitles), transcript_url)
    ELSE IF Head(all_subtitles).formats[1].url # None
    THEN Head(all_subtitles).formats[1].url
    ELSE available(Tail(all_subtitles), Head(all_subtitles).formats[1].url)

\* the caption URL get_transcript selects, None when it selects none
select(all_subtitles, languages) ==
    LET transcript_url == preferred(all_subtitles, languages, None)
    IN  IF transcript_url.raised THEN transcript_url
        ELSE IF transcript_url.value = None
        THEN ReturnedValue(available(all_subtitles, None))
        ELSE transcript_url

\* the caption payloads a server answers with: an empty one, cues with the
\* text "a", a document with the text "b"
TranscriptPayloads ==
    {CuePayload(<<>>),
     CuePayload(<<Cue("text", <<"a">>, <<"a">>)>>),
     JsonPayload(Document(List(<<Event(<<Seg(<<"b">>)>>)>>)))}
\* requests.get(transcript_url, timeout=30); response.raise_for_status()
Responses ==
    {Raises("RequestException")}
    \cup {ReturnedValue(payload) : payload \in TranscriptPayloads}
\* the payload with the text the cache returned
payload_of(text) == CHOOSE payload \in TranscriptPayloads : payload.text = text


\* transcript_text = self._parse_transcript(vtt_content) and what
\* get_transcript returns for it: the text of the Transcript, None for an
\* empty text and for an exception
transcript_of(vtt_content) ==
    bind(_parse_transcript(vtt_content), LAMBDA transcript_text :
    IF transcript_text.raised \/ transcript_text.value = <<>> THEN None
    ELSE Some(transcript_text.value))

\* a network interaction of a call
Interaction(request, failed) == [request |-> request, failed |-> failed]
\* a call of get_transcript in progress: where it waits ("extract": for
\* ydl.extract_info, "download": for requests.get), and behind the
\* extraction the URL selected and the value cached_vtt it read
TranscriptCall(video_id, languages, at, selected, cached_vtt) ==
    [video_id |-> video_id, languages |-> languages, at |-> at,
     selected |-> selected, entry |-> cached_vtt]
\* a call of get_transcript as it went: the interactions with the network,
\* the URL selected, the payload stored, the text returned, and the entry
\* the cache had for the video when the extraction ended, where the call
\* reads it
Transcribed(transcript_call, network, stored, value) ==
    [video_id |-> transcript_call.video_id,
     languages |-> transcript_call.languages,
     network |-> network, selected |-> transcript_call.selected,
     stored |-> stored, value |-> value, entry |-> transcript_call.entry]

\* get_transcript from the answer of extract_info to the cache read: the
\* caption URL it selects; None when extract_info raised, when the video
\* has no track, when the selection raises or finds no URL, and the call
\* returns None
transcript_url(languages, extracted) ==
    IF extracted.raised THEN None
    ELSE bind(merge(extracted.value.automatic_captions,
                    extracted.value.subtitles),
           LAMBDA all_subtitles :
             IF all_subtitles = <<>> THEN None
             ELSE bind(select(all_subtitles,
                              IF languages = None THEN <<"en">>
                              ELSE languages[1]),
                    LAMBDA selected :
                      IF selected.raised THEN None ELSE selected.value))

\* the calls in progress without call p
without_call(calls, p) ==
    SubSeq(calls, 1, p - 1) \o SubSeq(calls, p + 1, Len(calls))

\* YouTubeScraper.get_transcript(video_id, languages) begins: the options
\* are built and ydl.extract_info(video_url, download=False) is sent
GetTranscript(video_id, languages) ==
    /\ Len(result) + Len(procs) < MaxTranscripts
    /\ procs' = Append(procs, TranscriptCall(video_id, languages, "extract",
                                             None, None))
    /\ UNCHANGED <<call, result>>
    /\ UNCHANGED cacheVars
    /\ UNCHANGED runVars

\* extract_info of call p ends.  When it raised or no caption URL is
\* selected the call returns None; else cached_vtt = get_cached(cache_key,
\* "vtt"): a cached payload is parsed and the call returns, on a miss
\* requests.get(transcript_url, timeout=30) is sent
TranscriptExtracted(p) ==
    /\ procs[p].at = "extract"
    /\ \E extracted \in {Raises("DownloadError"), ReturnedValue(call.info)} :
          LET selected == transcript_url(procs[p].languages, extracted)
              cached_vtt == cached_value(files, cache_key(procs[p].video_id), "vtt")
              here == TranscriptCall(procs[p].video_id, procs[p].languages,
                                     "download", selected, cached_vtt)
              network == <<Interaction("extract_info", extracted.raised)>>
          IN  IF selected = None
              THEN /\ result' = Append(result,
                                       Transcribed(here, network, None, None))
                   /\ procs' = without_call(procs, p)
                   /\ UNCHANGED last
              ELSE /\ last' = Call("get", cache_key(procs[p].video_id), "vtt",
                                   <<>>, cached_vtt)
                   /\ IF truthy(cached_vtt)
                      THEN /\ result' =
                                Append(result,
                                       Transcribed(here, network, None,
                                          transcript_of(payload_of(cached_vtt[1]))))
                           /\ procs' = without_call(procs, p)
                      ELSE /\ result' = result
                           /\ procs' = [procs EXCEPT ![p] = here]
    /\ UNCHANGED <<environ, files, call>>
    /\ UNCHANGED runVars

\* requests.get of call p ends: it raises (raise_for_status included) and
\* the call returns None, or the payload is stored (set_cached(cache_key,
\* vtt_content, "vtt")), parsed, and the call returns its text, None for an
\* empty text
TranscriptDownloaded(p) ==
    /\ procs[p].at = "download"
    /\ \E response \in Responses :
          LET network == <<Interaction("extract_info", FALSE),
                           Interaction("requests.get", response.raised)>>
          IN  IF response.raised
              THEN /\ result' = Append(result,
                                       Transcribed(procs[p], network, None, None))
                   /\ UNCHANGED <<files, last>>
              ELSE /\ result' =
                        Append(result,
                               Transcribed(procs[p], network,
                                           Some(response.value.text),
                                           transcript_of(response.value)))
                   /\ files' = stored_files(files, cache_key(procs[p].video_id),
                                            response.value.text, "vtt")
                   /\ last' = Call("set", cache_key(procs[p].video_id), "vtt",
                                   response.value.text, None)
    /\ procs' = without_call(procs, p)
    /\ UNCHANGED <<environ, call>>
    /\ UNCHANGED runVars

InitTranscript ==
    /\ environ \in {None, Some("0")}
    /\ files = NoFiles
    /\ last = Call("start", "", "", <<>>, None)
    /\ IdleRun
    /\ call \in [fn : {"get_transcript"}, info : Infos]
    /\ result = <<>>
    /\ procs = <<>>

NextTranscript ==
    \/ \E video_id \in VideoIds, languages \in RequestedLanguages :
          GetTranscript(video_id, languages)
    \/ \E p \in 1..Len(procs) : TranscriptExtracted(p)
    \/ \E p \in 1..Len(procs) : TranscriptDownloaded(p)
    \/ clear_cache

SpecTranscript == InitTranscript /\ [][NextTranscript]_vars

-----------------------------------------------------------------------------
(* Polling (SpecPoll): OpenAINewsScraper.fetch_articles called again and   *)
(* again with the default window while articles appear on the news page,   *)
(* the cache disabled, no more than the window between two calls           *)

MaxPolls == 3           \* fetch_articles calls of one behaviour
MaxPollHours == 48      \* hours the clock advances in one behaviour
PollStepHours == 12     \* hours of one advance of the clock

\* the date text the page shows with an article that appeared at the
\* instant: the calendar day, here a day of January 2024 ("Jan 3, 2024")
date_text(instant) ==
    <<"J", "a", "n", " ">>
    \o str(3 + instant \div SecondsPerDay) \o <<",", " ", "2", "0", "2", "4">>

\* an article of the page: what page.evaluate returns for a link
PageItem(link, instant) ==
    [link |-> link, published |-> None, date_str |-> date_text(instant),
     content |-> None, summary |-> None]
\* the record of an article's appearance: when, and after how many calls
\* had read the page
Appeared(link, instant, polls) ==
    [link |-> link, at |-> instant, polls |-> polls]
\* the record of a fetch_articles call: when it began, the instant it read
\* the clock, and the articles it returned (none when it raised)
Polled(began, now, outcome) ==
    [at |-> began, now |-> now, raised |-> outcome.raised,
     articles |-> IF outcome.raised THEN <<>> ELSE outcome.value]
\* the polling: the window, and of a call in progress when it began and the
\* page's articles it has read (articles_data)
Polling(hours_back, began, articles_data) ==
    [fn |-> "poll", hours_back |-> hours_back, began |-> began,
     articles_data |-> articles_data]

\* for item in articles_data: parse the date, skip the item without date or
\* before cutoff_time, else append OpenAIArticle(...); an exception of
\* _parse_date leaves the loop and the call
RECURSIVE articles_of(_, _, _)
articles_of(articles_data, now, cutoff) ==
    IF articles_data = <<>> THEN ReturnedValue(<<>>)
    ELSE and_then(published_of("openai", Head(articles_data), now),
           LAMBDA published_at :
             and_then(articles_of(Tail(articles_data), now, cutoff),
               LAMBDA rest :
                 ReturnedValue(
                   (IF keep("openai", FALSE, Head(articles_data),
                            published_at, cutoff)
                    THEN <<make_item("openai", NEWS_URL, Head(articles_data),
                                     published_at)>>
                    ELSE <<>>) \o rest)))

\* fetch_articles(hours_back) from the clock read on: now =
\* datetime.now(timezone.utc), the cutoff, the loop over the articles the
\* page had when it was read
fetch_articles(articles_data, hours_back, now) ==
    articles_of(articles_data, now, now - hours_back * SecondsPerHour)

\* the calls that have read the page
PageReads == Len(result) + (IF call.began # None THEN 1 ELSE 0)

\* an article appears at the head of the page, between two calls or while
\* a call is in progress
Publish(link) ==
    /\ call.fn = "poll"
    /\ PageReads > 0
    /\ \A i \in 1..Len(listing) : listing[i].link # link
    /\ listing' = <<PageItem(link, clock)>> \o listing
    /\ log' = Append(log, Appeared(link, clock, PageReads))
    /\ UNCHANGED <<clock, op, pc, j, idx, cutoff_time, entry, all_items, k,
                   results, ret, drawn>>
    /\ UNCHANGED cacheVars
    /\ UNCHANGED auxVars

\* time passes, no more than the window since the latest call began
Advance ==
    /\ call.fn = "poll"
    /\ clock + PollStepHours * SecondsPerHour <= MaxPollHours * SecondsPerHour
    /\ PageReads > 0
       => clock + PollStepHours * SecondsPerHour
             - (IF call.began # None THEN call.began[1]
                ELSE result[Len(result)].at)
          <= call.hours_back * SecondsPerHour
    /\ clock' = clock + PollStepHours * SecondsPerHour
    /\ UNCHANGED <<op, pc, j, idx, cutoff_time, entry, listing, all_items, k,
                   results, ret, drawn, log>>
    /\ UNCHANGED cacheVars
    /\ UNCHANGED auxVars

\* OpenAINewsScraper.fetch_articles(hours_back) begins: the cache is
\* disabled, so the page is loaded as it is now and its articles are read
\* (html_content = self._fetch_page_html(...), articles_data = page.evaluate(...))
ReadPage ==
    /\ call.fn = "poll"
    /\ ~ is_cache_enabled
    /\ call.began = None
    /\ Len(result) < MaxPolls
    /\ call' = Polling(call.hours_back, Some(clock), listing)
    /\ UNCHANGED <<environ, files, last, result, procs>>
    /\ UNCHANGED runVars

\* the call goes on behind its browser sessions: it reads the clock, filters
\* the articles it has read and returns
FetchArticles ==
    /\ call.fn = "poll"
    /\ call.began # None
    /\ result' = Append(result,
                    Polled(call.began[1], clock,
                           fetch_articles(call.articles_data, call.hours_back,
                                          clock)))
    /\ call' = Polling(call.hours_back, None, <<>>)
    /\ UNCHANGED <<environ, files, last, procs>>
    /\ UNCHANGED runVars

InitPoll ==
    /\ environ = Some("0")
    /\ files = NoFiles
    /\ last = Call("start", "", "", <<>>, None)
    /\ IdleRun
    /\ call = Polling(DefaultHoursBack, None, <<>>)
    /\ result = <<>>
    /\ procs = <<>>

NextPoll ==
    \/ \E link \in Links("openai") : Publish(link)
    \/ Advance
    \/ ReadPage
    \/ FetchArticles

SpecPoll == InitPoll /\ [][NextPoll]_vars

-----------------------------------------------------------------------------
(* The network waits of run_all (SpecWaits, FairWaits): the requests       *)
(* run_all sends one after the other, each answered, refused or timed out. *)
(* The cache directory is empty when the run starts and no URL is fetched  *)
(* twice, so every get_cached misses and every fetch goes to the network   *)

MaxItems == 2           \* items one listing returns

RequestTimeout == 30            \* requests.get(..., timeout=30)
GotoTimeout == 60               \* page.goto(..., timeout=60000)
SelectorTimeout == 15           \* wait_for_selector(..., timeout=15000)
FallbackSelectorTimeout == 5    \* wait_for_selector("a", timeout=5000)

\* a network interaction run_all comes to: the function called, the timeout
\* in seconds the code passes (None when it passes none), the source (for
\* YouTube the channel) whose fetch it is part of, the item it is for (0
\* for an interaction of the listing), and the URL the fetch it is part of
\* reads and stores its payload under
NetworkCall(fn, timeout, source, item, url) ==
    [fn |-> fn, timeout |-> timeout, source |-> source, item |-> item,
     url |-> url]

\* the link of item i of a source's listing
item_link(source, i) == source \o "/" \o DigitChars[i + 1]

\* fetch_channel_videos / _fetch_feed: requests.get(rss_url, timeout=30)
feed_request(source, rss_url) ==
    NetworkCall("requests.get", Some(RequestTimeout), source, 0, rss_url)
\* get_transcript: ydl.extract_info(video_url, download=False), the options
\* hold no socket_timeout; then requests.get(transcript_url, timeout=30)
extract_info(source, item) ==
    NetworkCall("extract_info", None, source, item,
                cache_key(item_link(source, item)))
caption_request(source, item) ==
    NetworkCall("requests.get", Some(RequestTimeout), source, item,
                cache_key(item_link(source, item)))
\* _fetch_page_html / convert_url_to_markdown: page.goto(url, timeout=60000)
goto(source, item, url) ==
    NetworkCall("goto", Some(GotoTimeout), source, item, url)
\* _fetch_page_html: wait_for_selector("a[href*='/index/']", timeout=15000),
\* and in its except clause wait_for_selector("a", timeout=5000)
wait_for_selector(source, url) ==
    NetworkCall("wait_for_selector", Some(SelectorTimeout), source, 0, url)
wait_for_any_link(source, url) ==
    NetworkCall("wait_for_selector a", Some(FallbackSelectorTimeout), source,
                0, url)
\* fetch_articles, in its second browser session: page.set_content(
\* html_content), which loads the stored page and waits for its load event;
\* the code passes no timeout
set_content(source, url) ==
    NetworkCall("set_content", None, source, 0, url)

\* the listing interactions of run_all in the order it comes to them:
\* fetch_youtube (a feed request per channel), fetch_anthropic (a feed
\* request per feed), fetch_openai (the page, the wait for its links, and
\* the load of the stored page the articles are read from)
listing_calls ==
    [c \in 1..Len(YOUTUBE_CHANNELS) |->
        feed_request(YOUTUBE_CHANNELS[c], build_rss_url(YOUTUBE_CHANNELS[c]))]
    \o [f \in 1..Len(AnthropicFeedTypes) |->
          feed_request("anthropic", FEEDS[AnthropicFeedTypes[f]])]
    \o <<goto("openai", 0, NEWS_URL), wait_for_selector("openai", NEWS_URL),
         set_content("openai", NEWS_URL)>>

\* the enrichment interactions of the n items a source's listing returned:
\* get_transcript(video_id) for a video, convert_url_to_markdown(url) for
\* an article
enrichment_calls(source, n) ==
    [i \in 1..n |-> IF source \in {"anthropic", "openai"}
                    THEN goto(source, i, item_link(source, i))
                    ELSE extract_info(source, i)]

\* the pending interactions with `calls` put behind the last one of the source
RECURSIVE behind_source(_, _, _)
behind_source(todo, source, calls) ==
    IF \A i \in 1..Len(todo) : todo[i].source # source THEN calls \o todo
    ELSE <<Head(todo)>> \o behind_source(Tail(todo), source, calls)

\* the pending interactions without those a failure of `failed` skips: the
\* rest of the source's fetch when a listing interaction fails (except: in
\* fetch_youtube per channel, in fetch_anthropic and fetch_openai around
\* the whole call), the rest of the item's when an enrichment fails
RECURSIVE skipped(_, _)
skipped(todo, failed) ==
    IF todo = <<>> THEN <<>>
    ELSE (IF /\ Head(todo).source = failed.source
             /\ failed.item \in {0, Head(todo).item}
          THEN <<>> ELSE <<Head(todo)>>)
         \o skipped(Tail(todo), failed)

\* only the timeout the code passes bounds a wait
is_bounded_by_argument(waiting_for) == waiting_for.timeout # None
\* whether the wait of an interaction ends without an answer: the code
\* passed a timeout; YoutubeDL(ydl_opts) is given no socket_timeout and
\* waits for an unresponsive host no longer than its default one, and
\* page.set_content is given no timeout and waits for the load event no
\* longer than the default timeout of the page
is_bounded(waiting_for) ==
    \/ waiting_for.timeout # None
    \/ waiting_for.fn \in {"extract_info", "set_content"}

\* run_all in progress: the interactions it still comes to, whether it waits
\* for the first of them, whether it has returned, and whether the wait of
\* an extract_info has timed out so far
Waiting(todo, waiting, returned, extraction_timed_out) ==
    [fn |-> "run_all", todo |-> todo, waiting |-> waiting,
     returned |-> returned, extraction_timed_out |-> extraction_timed_out]
Ended(waited_for, outcome) == [call |-> waited_for, outcome |-> outcome]

\* the kind of the cache entry of the fetch an interaction is part of
kind_of(waiting_for) ==
    IF waiting_for.fn \in {"goto", "wait_for_selector", "wait_for_selector a",
                           "set_content"}
    THEN "html"
    ELSE IF waiting_for.item = 0 THEN "xml" ELSE "vtt"
\* whether the fetch reads the cache right before it sends the interaction:
\* get_cached is the first statement of a feed or page fetch, and in
\* get_transcript it follows extract_info
reads_cache_first(waiting_for) ==
    waiting_for.fn \in {"requests.get", "goto"}
\* whether the fetch stores its payload once the interaction is answered:
\* the feed text, the caption payload, the article's HTML, and the news page
\* once its links are there
stores_payload(waiting_for) ==
    \/ waiting_for.fn \in {"requests.get", "wait_for_selector",
                           "wait_for_selector a"}
    \/ waiting_for.fn = "goto" /\ waiting_for.item # 0

\* the pending interactions after the first of them failed
after_failure(todo) ==
    IF Head(todo).fn = "wait_for_selector"
    THEN <<wait_for_any_link(Head(todo).source, Head(todo).url)>> \o Tail(todo)
    ELSE skipped(Tail(todo), Head(todo))

\* the pending interactions after the first of them was answered, with n
\* items when it ends a listing and a caption URL or none when it is the
\* extraction of a video
after_answer(todo, n, with_url) ==
    LET answered == Head(todo)
        rest == Tail(todo)
        ends_listing ==
            /\ answered.item = 0
            /\ answered.fn # "goto"
            /\ \A i \in 1..Len(rest) :
                  ~ (rest[i].source = answered.source /\ rest[i].item = 0)
    IN  IF ends_listing
        THEN behind_source(rest, answered.source,
                           enrichment_calls(answered.source, n))
        ELSE IF answered.fn = "extract_info" /\ with_url
        THEN <<caption_request(answered.source, answered.item)>> \o rest
        ELSE rest

\* the next interaction is sent, after the get_cached of its fetch found
\* nothing
Send ==
    /\ call.fn = "run_all" /\ ~ call.returned
    /\ ~ call.waiting /\ call.todo # <<>>
    /\ reads_cache_first(Head(call.todo))
       => cached_value(files, Head(call.todo).url, kind_of(Head(call.todo))) = None
    /\ call' = [call EXCEPT !.waiting = TRUE]
    /\ last' = IF reads_cache_first(Head(call.todo))
               THEN Call("get", Head(call.todo).url, kind_of(Head(call.todo)),
                         <<>>, None)
               ELSE last
    /\ UNCHANGED <<environ, files, result, procs>>
    /\ UNCHANGED runVars

\* the payload of an answered interaction is stored when it ends its fetch
stored_answer(waited_for, payload) ==
    IF stores_payload(waited_for)
    THEN /\ files' = stored_files(files, waited_for.url, payload,
                                  kind_of(waited_for))
         /\ last' = Call("set", waited_for.url, kind_of(waited_for), payload,
                         None)
         /\ UNCHANGED environ
    ELSE UNCHANGED cacheVars

\* the remote side answers, and the fetch goes on with the answer
Answered ==
    /\ call.fn = "run_all" /\ call.waiting
    /\ \E n \in 0..MaxItems, with_url \in BOOLEAN :
          call' = [call EXCEPT !.waiting = FALSE,
                               !.todo = after_answer(@, n, with_url)]
    /\ result' = <<Ended(Head(call.todo), "answered")>>
    /\ stored_answer(Head(call.todo), <<"a">>)
    /\ UNCHANGED procs
    /\ UNCHANGED runVars

\* the remote side answers a feed request with status 200 and a body that
\* is no feed: the text is stored, feedparser.parse(...).bozo, raise
\* ValueError
Malformed ==
    /\ call.fn = "run_all" /\ call.waiting
    /\ Head(call.todo).fn = "requests.get" /\ Head(call.todo).item = 0
    /\ call' = [call EXCEPT !.waiting = FALSE, !.todo = after_failure(@)]
    /\ result' = <<Ended(Head(call.todo), "malformed")>>
    /\ stored_answer(Head(call.todo), <<"<">>)
    /\ UNCHANGED procs
    /\ UNCHANGED runVars

\* the navigation to an article is answered without a response or with a
\* status other than 200: page.goto returns, convert_url_to_markdown does
\* not look at the response, and the content of the page is stored under
\* the article's URL and converted as that of any answer
ErrorPage ==
    /\ call.fn = "run_all" /\ call.waiting
    /\ Head(call.todo).fn = "goto" /\ Head(call.todo).item # 0
    /\ call' = [call EXCEPT !.waiting = FALSE,
                            !.todo = after_answer(@, 0, FALSE)]
    /\ result' = <<Ended(Head(call.todo), "error page")>>
    /\ stored_answer(Head(call.todo), Unusable)
    /\ UNCHANGED procs
    /\ UNCHANGED runVars

\* the interaction raises: requests.get on a failed connection and
\* raise_for_status on an error status, DownloadError of extract_info, a
\* navigation or page error of the browser, and the news page answered
\* without a response or with a status other than 200 (_fetch_page_html
\* raises ValueError); nothing is stored
Refused ==
    /\ call.fn = "run_all" /\ call.waiting
    /\ call' = [call EXCEPT !.waiting = FALSE, !.todo = after_failure(@)]
    /\ result' = <<Ended(Head(call.todo), "error")>>
    /\ UNCHANGED procs
    /\ UNCHANGED cacheVars
    /\ UNCHANGED runVars

\* no answer within the timeout
TimesOut ==
    /\ call.fn = "run_all" /\ call.waiting
    /\ is_bounded(Head(call.todo))
    /\ call' = [call EXCEPT !.waiting = FALSE, !.todo = after_failure(@),
                            !.extraction_timed_out =
                                @ \/ Head(call.todo).fn = "extract_info"]
    /\ result' = <<Ended(Head(call.todo), "timeout")>>
    /\ UNCHANGED procs
    /\ UNCHANGED cacheVars
    /\ UNCHANGED runVars

\* return results
ReturnResults ==
    /\ call.fn = "run_all" /\ ~ call.returned
    /\ ~ call.waiting /\ call.todo = <<>>
    /\ call' = [call EXCEPT !.returned = TRUE]
    /\ UNCHANGED <<result, procs>>
    /\ UNCHANGED cacheVars
    /\ UNCHANGED runVars

InitWaits ==
    /\ environ \in {None, Some("0")}
    /\ files = NoFiles
    /\ last = Call("start", "", "", <<>>, None)
    /\ IdleRun
    /\ call = Waiting(listing_calls, FALSE, FALSE, FALSE)
    /\ result = <<>>
    /\ procs = <<>>

NextWaits ==
    \/ Send
    \/ Answered
    \/ Malformed
    \/ ErrorPage
    \/ Refused
    \/ TimesOut
    \/ ReturnResults

SpecWaits == InitWaits /\ [][NextWaits]_vars

\* the steps of the program and the timers are taken when they can be; an
\* answer of the remote side may never come
FairWaits ==
    /\ SpecWaits
    /\ WF_vars(Send)
    /\ WF_vars(TimesOut)
    /\ WF_vars(ReturnResults)

-----------------------------------------------------------------------------
(* Properties of the cache (SpecCache)                                     *)

\* the enable flag as the environment states it: USE_CACHE unset or "1"
CacheFlagOn == environ = None \/ environ = Some("1")

\* C4: with caching enabled, a get_cached(url, suffix) that directly follows
\* set_cached(url, v, suffix) returns exactly v, for every content v.
C4_RoundTrip ==
    [][(/\ last.op = "set"
        /\ last'.op = "get"
        /\ last'.url = last.url
        /\ last'.suffix = last.suffix
        /\ CacheFlagOn)
       => last'.ret = Some(last.content)]_vars

\* C5: the flag is read on every call.  A get_cached made while the flag is
\* off returns None, also when the file of that key exists; a set_cached made
\* while the flag is off leaves every file as it was, so that a later
\* get_cached returns what it would have returned before.
C5_FlagOnEveryCall ==
    [][/\ (last'.op = "get" /\ ~ CacheFlagOn) => last'.ret = None
       /\ (last'.op = "set" /\ ~ CacheFlagOn) => files' = files]_vars

\* C5 witness: the flag was switched off after an entry was stored, and a
\* get_cached of that entry's key returned None.
C5_Witness ==
    /\ last.op = "get"
    /\ ~ CacheFlagOn
    /\ get_cache_key(last.url, last.suffix) \in DOMAIN files
    /\ last.ret = None

\* C6 as claimed: the key of every kind is hash(url) + "." + kind (so that a
\* set_cached(url, v, kind) made with the flag on leaves the file of that
\* name), and a set_cached of one kind never changes what get_cached of
\* another kind of the same URL returns.
C6_KeyIsHashDotKind ==
    [][(last'.op = "set" /\ CacheFlagOn) =>
         /\ <<md5_hexdigest(last'.url), ".", last'.suffix>> \in DOMAIN files'
         /\ \A k2 \in Suffixes \ {last'.suffix} :
              cached_value(files', last'.url, k2) = cached_value(files, last'.url, k2)]_vars

\* C6 amended: the key is hash(url) + "." + kind for a non-empty kind and
\* hash(url) alone for the empty kind; the keys of two kinds of one URL
\* differ, and a set_cached of one kind never changes what get_cached of
\* another kind of the same URL returns.
C6_KindsNeverCollide ==
    [][(last'.op = "set" /\ CacheFlagOn) =>
         /\ (IF last'.suffix = ""
             THEN <<md5_hexdigest(last'.url)>>
             ELSE <<md5_hexdigest(last'.url), ".", last'.suffix>>) \in DOMAIN files'
         /\ \A k2 \in Suffixes \ {last'.suffix} :
              /\ get_cache_key(last'.url, k2) # get_cache_key(last'.url, last'.suffix)
              /\ cached_value(files', last'.url, k2) = cached_value(files, last'.url, k2)]_vars

\* C6 witness: a set_cached stored an entry for a URL whose other kind holds
\* an entry with a different content.
C6_Witness ==
    /\ last.op = "set"
    /\ CacheFlagOn
    /\ \E k2 \in Suffixes \ {last.suffix} :
          /\ get_cache_key(last.url, k2) \in DOMAIN files
          /\ get_cache_key(last.url, last.suffix) \in DOMAIN files
          /\ files[get_cache_key(last.url, k2)] # files[get_cache_key(last.url, last.suffix)]

\* C7: clear_cache removes every entry and returns the number of entries
\* there were, with the flag on or off; while the directory is empty
\* (until the next set_cached stores an entry) get_cached returns None for
\* every key.
C7_ClearRemovesAllAndCounts ==
    [][/\ last'.op = "clear" =>
             /\ last'.ret = Some(Cardinality(DOMAIN files))
             /\ DOMAIN files' = {}
       /\ (last.op = "clear" /\ last'.op \in {"get", "setenv"}) => DOMAIN files' = {}
       /\ (DOMAIN files = {} /\ last'.op = "get") => last'.ret = None]_vars

\* C7 witness: clear_cache was called with the flag off on a directory of
\* three entries, and removed them.
C7_Witness ==
    /\ last.op = "clear"
    /\ ~ CacheFlagOn
    /\ last.ret = Some(3)
    /\ DOMAIN files = {}

-----------------------------------------------------------------------------
(* Properties of the calls (Spec)                                          *)

\* the items without their bodies
WithoutContent(items) ==
    [i \in 1..Len(items) |-> [items[i] EXCEPT !.content = None]]

\* the items the listing fetches of one source returned, in the order of the
\* fetches; a fetch that raised returned none
RECURSIVE Listed(_)
Listed(outcomes) ==
    IF outcomes = <<>> THEN <<>>
    ELSE Head(outcomes).items \o Listed(Tail(outcomes))

\* a listing fetch of the source raised
SomeListingRaised(outcomes) ==
    \E n \in 1..Len(outcomes) : outcomes[n].raised

\* what a source makes of the outcomes of its own listing fetches, bodies
\* aside: fetch_anthropic / fetch_openai return [] when a fetch raised,
\* fetch_youtube leaves out the channel whose fetch raised
RunAlone(job, outcomes) ==
    IF job.guard = "whole" /\ SomeListingRaised(outcomes) THEN <<>>
    ELSE IF job.sorted THEN sort_newest_first(Listed(outcomes))
    ELSE Listed(outcomes)

\* C1: every item a fetch operation returns that has a publish time was
\* published at or after the cutoff, the time of the call minus hours_back
\* (24 when the caller passes none).
C1_ReturnedWithinWindow ==
    (/\ pc = "done"
     /\ op.name \in {"YouTubeScraper.fetch_channel_videos",
                     "AnthropicScraper.fetch_articles",
                     "OpenAINewsScraper.fetch_articles",
                     "SubstackScraper.fetch_articles",
                     "youtube.fetch_channel_videos"}
     /\ ~ ret[1].raised)
    => \A i \in 1..Len(ret[1].value) :
          ret[1].value[i].published_at # None
          => ret[1].value[i].published_at[1]
                >= op.at - OrElse(op.hours_back, DefaultHoursBack)
                             * SecondsPerHour

\* C1 witness: a fetch operation read two entries while the clock advanced
\* and returned the one inside the window.
C1_Witness ==
    /\ pc = "done"
    /\ op.name \in {"YouTubeScraper.fetch_channel_videos",
                    "AnthropicScraper.fetch_articles",
                    "OpenAINewsScraper.fetch_articles",
                    "SubstackScraper.fetch_articles",
                    "youtube.fetch_channel_videos"}
    /\ ~ ret[1].raised
    /\ clock > op.at
    /\ drawn = 2
    /\ Len(ret[1].value) = 1
    /\ ret[1].value[1].published_at # None

\* C2: a listing failure in one source, or in one YouTube channel, never
\* leaves run_all and never changes another source's list: run_all returns
\* a map with exactly the keys youtube, anthropic and openai, a source whose
\* listing failed maps to the empty list, and every source maps to what it
\* makes of its own listing fetches, whatever happened in the other sources.
C2_FailureIsolation ==
    (op.name = "run_all" /\ pc = "done")
    => /\ ret # None
       /\ ~ ret[1].raised
       /\ DOMAIN ret[1].value = {"youtube", "anthropic", "openai"}
       /\ \A i \in 1..Len(Jobs(op)) :
            /\ (Jobs(op)[i].guard = "whole" /\ SomeListingRaised(log[i]))
               => ret[1].value[Jobs(op)[i].source] = <<>>
            /\ (\A n \in 1..Len(log[i]) : log[i][n].raised)
               => ret[1].value[Jobs(op)[i].source] = <<>>
            /\ WithoutContent(ret[1].value[Jobs(op)[i].source])
                 = RunAlone(Jobs(op)[i], log[i])

\* C2 witness: run_all returned after a YouTube channel and an Anthropic
\* feed failed, with a video of the other channel and an OpenAI article.
C2_Witness ==
    /\ op.name = "run_all"
    /\ pc = "done"
    /\ log[1][1].raised
    /\ SomeListingRaised(log[2])
    /\ ret[1].value["youtube"] # <<>>
    /\ ret[1].value["anthropic"] = <<>>
    /\ ret[1].value["openai"] # <<>>

\* C3: the map run_all returns tells a source that failed from a source that
\* found nothing in the window.  A source that found nothing maps to the
\* empty list, so a source whose listing failed (for YouTube: every channel
\* failed) maps to something else.
C3_FailureDistinguishable ==
    (op.name = "run_all" /\ pc = "done")
    => \A i \in 1..Len(Jobs(op)) :
          (IF Jobs(op)[i].guard = "whole" THEN SomeListingRaised(log[i])
           ELSE \A n \in 1..Len(log[i]) : log[i][n].raised)
          => ret[1].value[Jobs(op)[i].source] # <<>>

\* the list an enrichment loop is working on and, once the call has
\* returned, the list it returned
EnrichmentList ==
    IF pc = "done" THEN ret[1].value
    ELSE IF J.enrich = "per_listing" THEN listing ELSE all_items

\* C8: in fetch_articles_with_content, scrape_channel and ingest_channel a
\* failed enrichment of one item neither drops an item nor ends the call.
\* Every step of the enrichment loop keeps the length and the order of the
\* list, changes only the body of the item it is at, to the item's own body
\* or to None, and leaves the other items with their bodies; the list the
\* call returns has, bodies aside, the items the listing step returned, in
\* the same order.
C8_EnrichmentKeepsItems ==
    [][(op.name \in {"AnthropicScraper.fetch_articles_with_content",
                     "OpenAINewsScraper.fetch_articles_with_content",
                     "YouTubeScraper.scrape_channel",
                     "youtube.ingest_channel"})
       => /\ pc \in {"enrich", "extract", "download", "convert"}
             => /\ pc' \in {"enrich", "extract", "download", "convert", "done"}
                /\ pc' = "done" => ~ ret'[1].raised
                /\ Len(EnrichmentList') = Len(EnrichmentList)
                /\ \A i \in 1..Len(EnrichmentList) :
                     IF i = k
                     THEN /\ WithoutContent(<<EnrichmentList'[i]>>)
                               = WithoutContent(<<EnrichmentList[i]>>)
                          /\ EnrichmentList'[i].content
                               \in {None, Some(BodyOf(EnrichmentList[i].id))}
                     ELSE EnrichmentList'[i] = EnrichmentList[i]
          /\ (pc' = "done" /\ ~ ret'[1].raised)
             => WithoutContent(ret'[1].value) = RunAlone(J, log'[1])]_vars

\* C8 witness: a call returned two items, the first without a body because
\* its enrichment failed, the second with its own body.
C8_Witness ==
    /\ op.name \in {"AnthropicScraper.fetch_articles_with_content",
                    "OpenAINewsScraper.fetch_articles_with_content",
                    "YouTubeScraper.scrape_channel",
                    "youtube.ingest_channel"}
    /\ pc = "done"
    /\ ~ ret[1].raised
    /\ Len(ret[1].value) = 2
    /\ ret[1].value[1].content = None
    /\ ret[1].value[2].content = Some(BodyOf(ret[1].value[2].id))
    /\ ret[1].value[2].id # ret[1].value[1].id

\* C9: called without include_undated, fetch_research keeps every entry that
\* has no publish time and returns it, and every other fetch operation
\* returns no item without a publish time.
C9_UndatedPolicy ==
    [][op.include_undated = None
       => IF op.name = "AnthropicScraper.fetch_research"
          THEN /\ (drawn' = drawn + 1 /\ entry'[1].published = None)
                  => /\ Len(listing') = Len(listing) + 1
                     /\ SubSeq(listing', 1, Len(listing)) = listing
                     /\ listing'[Len(listing')].id = entry'[1].link
                     /\ listing'[Len(listing')].published_at = None
               /\ (pc = "loop" /\ pc' = "done")
                  => /\ ~ ret'[1].raised
                     /\ Len(ret'[1].value) = Len(listing)
                     /\ \A i \in 1..Len(listing) :
                          \E n \in 1..Len(listing) : ret'[1].value[n] = listing[i]
          ELSE (op.name # "run_all" /\ pc' = "done" /\ ~ ret'[1].raised)
               => \A i \in 1..Len(ret'[1].value) :
                     ret'[1].value[i].published_at # None]_vars

\* C9 witness: fetch_research, called with default arguments, returned an
\* entry without a publish time next to a dated one.
C9_Witness ==
    /\ op.name = "AnthropicScraper.fetch_research"
    /\ op.include_undated = None
    /\ pc = "done"
    /\ ~ ret[1].raised
    /\ Len(ret[1].value) = 2
    /\ ret[1].value[1].published_at # None
    /\ ret[1].value[2].published_at = None

\* C10: within one run_all every listing fetch (every YouTube channel, every
\* Anthropic feed, the OpenAI page) filters against the same cutoff instant,
\* however much time passes between the fetches.
C10_OneCutoffPerRun ==
    [][(op.name = "run_all" /\ cutoff_time # None /\ cutoff_time' # None)
       => cutoff_time' = cutoff_time]_vars

\* C11: in the map run_all returns no two items of one source's list share
\* their external identifier (guid of an Anthropic article, video_id of a
\* video, url of an OpenAI article).
C11_UniqueExternalId ==
    (op.name = "run_all" /\ pc = "done")
    => \A s \in DOMAIN ret[1].value :
          \A i, n \in 1..Len(ret[1].value[s]) :
             i # n => ret[1].value[s][i].id # ret[1].value[s][n].id

\* C12: YouTubeScraper.fetch_channel_videos, AnthropicScraper.fetch_articles
\* and SubstackScraper.fetch_articles return exactly the dated entries of
\* the feed that were published at or after the cutoff: the listing loop
\* appends every such entry and no other dated entry, and the call returns
\* what its listing loops appended.
C12_WindowComplete ==
    [][(op.name \in {"YouTubeScraper.fetch_channel_videos",
                     "AnthropicScraper.fetch_articles",
                     "SubstackScraper.fetch_articles"})
       => /\ (drawn' = drawn + 1 /\ entry'[1].published # None)
             => IF entry'[1].published[1] >= cutoff_time[1]
                THEN /\ Len(listing') = Len(listing) + 1
                     /\ SubSeq(listing', 1, Len(listing)) = listing
                     /\ listing'[Len(listing')].published_at = entry'[1].published
                ELSE listing' = listing
          /\ (pc = "loop" /\ pc' = "done")
             => /\ ~ ret'[1].raised
                /\ ret'[1].value = RunAlone(J, log'[1])]_vars

\* C22: every list of the map run_all returns is newest first: the publish
\* times of 'anthropic', of 'youtube' (the channels' lists one after the
\* other) and of 'openai' never increase along the list, and an item without
\* a publish time comes after every dated one.
C22_NewestFirst ==
    (op.name = "run_all" /\ pc = "done")
    => \A s \in DOMAIN ret[1].value :
          \A i, n \in 1..Len(ret[1].value[s]) :
             (i < n /\ ret[1].value[s][n].published_at # None)
             => /\ ret[1].value[s][i].published_at # None
                /\ ret[1].value[s][i].published_at[1]
                      >= ret[1].value[s][n].published_at[1]

\* C23: what a source collected before a failure stays in its list: when
\* the fetch of listing n of a source of run_all (a YouTube channel, an
\* Anthropic feed) raised, every item the fetches of the listings before n
\* returned is in the list run_all returns for the source.
C23_PartialResultsRetained ==
    (op.name = "run_all" /\ pc = "done")
    => \A i \in 1..Len(Jobs(op)) :
          \A n \in 1..Len(log[i]) :
             log[i][n].raised
             => \A m \in 1..(n - 1) :
                   \A x \in 1..Len(log[i][m].items) :
                      \E y \in 1..Len(ret[1].value[Jobs(op)[i].source]) :
                         WithoutContent(<<ret[1].value[Jobs(op)[i].source][y]>>)
                            = WithoutContent(<<log[i][m].items[x]>>)

-----------------------------------------------------------------------------
(* Properties of the parsers (SpecParse)                                   *)

\* C13: _parse_transcript is a pure function of its payload: a call returns
\* what the call before it returned for the same payload, which is the
\* value of a function of the payload alone, whatever happened to the cache
\* before and between its statements; and no statement of a call changes
\* anything but the call's own locals and return value (no cache entry, no
\* cache call).
C13_ParserIsPure ==
    [][(call.fn = "_parse_transcript"
        /\ <<pc, entry, all_items, listing, idx, result>>'
              # <<pc, entry, all_items, listing, idx, result>>)
       => /\ files' = files
          /\ environ' = environ
          /\ last' = last
          /\ Len(result') > Len(result)
             => /\ result'[Len(result')] = _parse_transcript(call.arg)
                /\ Len(result) >= 1
                   => result'[Len(result')] = result[Len(result)]]_vars

\* C13 witness: _parse_transcript returned the two text lines of a payload
\* twice, line by line, and a payload was stored in the cache.
C13_Witness ==
    /\ call.fn = "_parse_transcript"
    /\ Len(result) = 2
    /\ result[2] = ReturnedValue(<<"a", " ", "b">>)
    /\ result[2] = result[1]
    /\ listing = << <<"a">>, <<"b">> >>
    /\ last.op = "set"
    /\ files # NoFiles

\* C14: the text _parse_transcript returns, for a structured payload and for
\* a cue-format payload, has no whitespace at its ends and no two whitespace
\* characters in a row.
C14_WhitespaceNormalized ==
    call.fn = "_parse_transcript"
    => \A n \in 1..Len(result) :
          LET text == result[n].value
          IN  /\ text # <<>> => (~ IsSpace(text[1]) /\ ~ IsSpace(text[Len(text)]))
              /\ \A i \in 1..(Len(text) - 1) :
                    ~ (IsSpace(text[i]) /\ IsSpace(text[i + 1]))
              /\ \A i \in 1..Len(text) : IsSpace(text[i]) => text[i] = " "

\* the text lines of a cue-format payload, without their tags, in their
\* order, joined by single spaces
TextLinesJoined(cues) ==
    LET texts == SelectSeq(cues, LAMBDA cue : cue.cat = "text")
    IN  join_space([i \in 1..Len(texts) |-> texts[i].clean])

\* C15 as claimed: for a payload of header, blank, timing, speaker-label
\* (capital words followed by digits:digits) and text lines, _parse_vtt
\* returns the text lines without their tags, in their order, joined by
\* single spaces.
C15_CueParsing ==
    (/\ call.fn = "_parse_vtt"
     /\ \A i \in 1..Len(call.arg.cues) :
           call.arg.cues[i].cat \in {"header", "blank", "timing", "text",
                                     "speaker hh:mm:ss", "speaker mm:ss"})
    => \A n \in 1..Len(result) :
          result[n].value = TextLinesJoined(call.arg.cues)

\* the utf8 texts of all segments of all events of a document, in order
AllSegmentTexts(doc) ==
    LET RECURSIVE of_segs(_)
        of_segs(segs) ==
            IF segs = <<>> THEN <<>>
            ELSE <<value_of(value_of(Head(segs)).utf8[1])>> \o of_segs(Tail(segs))
        RECURSIVE of_events(_)
        of_events(events) ==
            IF events = <<>> THEN <<>>
            ELSE of_segs(value_of(value_of(Head(events)).segs[1]))
                 \o of_events(Tail(events))
    IN  of_events(value_of(value_of(doc).events[1]))

\* every event of the document has segments and every segment a text
IsComplete(doc) ==
    /\ value_of(doc).events # None
    /\ type_name(value_of(doc).events[1]) = "list"
    /\ \A i \in 1..Len(value_of(value_of(doc).events[1])) :
          LET event == value_of(value_of(doc).events[1])[i]
          IN  /\ type_name(event) = "dict"
              /\ "segs" \in DOMAIN value_of(event)
              /\ value_of(event).segs # None
              /\ type_name(value_of(event).segs[1]) = "list"
              /\ \A n \in 1..Len(value_of(value_of(event).segs[1])) :
                    LET seg == value_of(value_of(event).segs[1])[n]
                    IN  /\ type_name(seg) = "dict"
                        /\ "utf8" \in DOMAIN value_of(seg)
                        /\ value_of(seg).utf8 # None
                        /\ type_name(value_of(seg).utf8[1]) = "str"

\* C20: _parse_json3 returns the texts of all segments of all events,
\* concatenated in order, with every whitespace run collapsed to one space
\* and the ends trimmed; a segment that is only a newline still separates
\* the words around it.
C20_Json3Concatenation ==
    (call.fn = "_parse_json3" /\ IsComplete(call.arg.json[1]))
    => \A n \in 1..Len(result) :
          result[n].value
             = strip(sub_whitespace(join_empty(AllSegmentTexts(call.arg.json[1]))))

\* the length of a unit of a relative phrase, in seconds
UnitLength(unit) ==
    CASE unit = <<"m", "i", "n", "u", "t", "e">> -> 60
      [] unit = <<"h", "o", "u", "r">> -> 60 * 60
      [] unit = <<"d", "a", "y">> -> 24 * 60 * 60
      [] unit = <<"w", "e", "e", "k">> -> 7 * 24 * 60 * 60

\* C16: _parse_date maps "2024-01-02T03:04:05Z" to that instant in UTC,
\* "Jan 2, 2024" to midnight UTC of that day, "<N> <unit> ago" for the units
\* minute, hour, day and week to the instant of the call minus N units, and
\* "not a date" to None.
C16_DateMappings ==
    call.fn = "_parse_date"
    => \A i \in 1..Len(result) :
          /\ call.arg.date_str
               = <<"2", "0", "2", "4", "-", "0", "1", "-", "0", "2", "T",
                   "0", "3", ":", "0", "4", ":", "0", "5", "Z">>
             => result[i] = ReturnedValue(Some(3 * 3600 + 4 * 60 + 5 - 86400))
          /\ call.arg.date_str
               = <<"J", "a", "n", " ", "2", ",", " ", "2", "0", "2", "4">>
             => result[i] = ReturnedValue(Some(-86400))
          /\ \A n \in RelativeNums : \A u \in 1..Len(units) :
                call.arg.date_str = RelativeText(n, units[u])
                => result[i]
                     = ReturnedValue(Some(call.arg.now - n * UnitLength(units[u])))
          /\ call.arg.date_str
               = <<"n", "o", "t", " ", "a", " ", "d", "a", "t", "e">>
             => result[i] = ReturnedValue(None)

\* C16 witness: "3 hours ago", read an hour into the day after Epoch, came
\* to the instant three hours earlier.
C16_Witness ==
    /\ call.fn = "_parse_date"
    /\ call.arg.date_str
         = <<"3", " ", "h", "o", "u", "r", "s", " ", "a", "g", "o">>
    /\ call.arg.now = 90000
    /\ result = <<ReturnedValue(Some(79200))>>

\* C17: _parse_date never raises, whatever the text: it returns an instant
\* or None for the empty text, for text no format matches and for a
\* relative phrase with a number of any size.
C17_NeverRaises ==
    call.fn = "_parse_date"
    => \A i \in 1..Len(result) : ~ result[i].raised

-----------------------------------------------------------------------------
(* Properties of the cached fetches (SpecFetch)                            *)

\* whether clear_cache was called after the m-th entry of the history and
\* before the fetch of the n-th read the cache
ClearedBetween(m, n) ==
    \E i \in (m + 1)..result[n].began : result[i].fn = "clear_cache"

\* whether another fetch stored a payload for the (url, kind) of the n-th
\* entry after the m-th entry and before the fetch of the n-th read the cache
StoredBetween(m, n) ==
    \E i \in (m + 1)..result[n].began :
       /\ result[i].fn = "fetch" /\ result[i].network /\ result[i].value # None
       /\ result[i].url = result[n].url /\ result[i].kind = result[n].kind

\* C18: with caching enabled, once a fetch of a (url, kind) has succeeded
\* and stored its payload, every later fetch of the same (url, kind), one
\* that reads the cache after the first has returned, sends no request and
\* reads the stored payload, until clear_cache is called or another fetch
\* stores a payload; this for every payload, the empty one included.
C18_StoredEntryServesLaterFetches ==
    (call.fn = "fetch" /\ CacheFlagOn)
    => \A m, n \in 1..Len(result) :
          (/\ m <= result[n].began
           /\ result[m].fn = "fetch" /\ result[n].fn = "fetch"
           /\ result[m].network /\ ~ result[m].raised
           /\ result[n].url = result[m].url /\ result[n].kind = result[m].kind
           /\ ~ ClearedBetween(m, n)
           /\ ~ StoredBetween(m, n))
          => /\ ~ result[n].network
             /\ result[n].value = result[m].value

\* whether the m-th entry of the history is the fetch of the same feed that
\* finished last before the n-th began
PreviousFetch(m, n) ==
    /\ m <= result[n].began
    /\ result[m].fn = "fetch" /\ result[m].kind = result[n].kind
    /\ result[m].url = result[n].url
    /\ \A i \in (m + 1)..result[n].began :
          ~ (/\ result[i].fn = "fetch" /\ result[i].kind = result[n].kind
             /\ result[i].url = result[n].url)

\* C27: a failed listing fetch is recovered by the next run: the fetch of a
\* feed that follows a fetch of the same feed that raised (the request
\* failed or the feed was malformed) sends a fresh request, and no fetch
\* serves from the cache a payload that fails feed parsing.
C27_FailedFeedRefetched ==
    call.fn = "fetch"
    => \A n \in 1..Len(result) :
          (result[n].fn = "fetch" /\ result[n].kind = "xml")
          => /\ \A m \in 1..(n - 1) :
                   (PreviousFetch(m, n) /\ result[m].raised)
                   => result[n].network
             /\ (result[n].value # None /\ bozo(result[n].value[1]))
                => result[n].network

-----------------------------------------------------------------------------
(* Properties of the concurrent cache calls (SpecRace)                     *)

\* the contents the set_cached calls of the behaviour were given
WriterContents ==
    {procs[p].content : p \in {q \in 1..Len(procs) : procs[q].fn = "set"}}

\* C19: cache calls on one key are safe when interleaved: a get_cached that
\* runs alongside set_cached calls returns None or the whole content of one
\* of them, never an empty or partial text, and once every call has
\* finished the entry holds the content of one writer.
C19_InterleavedCallsAreSafe ==
    (/\ call.fn = "race" /\ CacheFlagOn
     /\ \A p \in 1..Len(procs) : procs[p].fn \in {"get", "set"})
    => /\ \A p \in 1..Len(procs) :
            (procs[p].fn = "get" /\ procs[p].pc = "done")
            => /\ procs[p].raised = None
               /\ \/ procs[p].ret = None
                  \/ procs[p].ret[1] \in WriterContents
       /\ (/\ \A p \in 1..Len(procs) : procs[p].pc = "done"
           /\ WriterContents # {})
          => \E content \in WriterContents :
                read_bytes_as_text(files[RaceKey]) = ReturnedValue(content)

\* a document of the structured format: 'events', when the key is there, is
\* a list of objects, the 'segs' of an event a list of objects, the 'utf8'
\* of a segment a str
IsStructured(doc) ==
    LET list_of_dicts(member) ==
            member # None
            => /\ type_name(member[1]) = "list"
               /\ \A i \in 1..Len(value_of(member[1])) :
                     type_name(value_of(member[1])[i]) = "dict"
        member_of(dict, key) ==
            IF key \in DOMAIN value_of(dict) THEN value_of(dict)[key] ELSE None
        events == member_of(doc, "events")
    IN  /\ list_of_dicts(events)
        /\ events # None =>
             \A i \in 1..Len(value_of(events[1])) :
                LET segs == member_of(value_of(events[1])[i], "segs")
                IN  /\ list_of_dicts(segs)
                    /\ segs # None =>
                         \A n \in 1..Len(value_of(segs[1])) :
                            LET utf8 == member_of(value_of(segs[1])[n], "utf8")
                            IN  utf8 # None => type_name(utf8[1]) = "str"

\* C21: _parse_transcript never raises: every call returns a text, and for a
\* payload that starts with "{" after trimming and is not a document of the
\* structured format (no JSON, 'events' null or no list, an event or a
\* segment that is no object, a 'utf8' that is no str) the text is what
\* _parse_vtt returns for the trimmed payload.
C21_AlwaysFallsBack ==
    call.fn = "_parse_transcript"
    => \A n \in 1..Len(result) :
          LET stripped == [call.arg EXCEPT !.text = strip(@)]
          IN  /\ ~ result[n].raised
              /\ (/\ startswith(stripped.text, <<"{">>)
                  /\ (call.arg.json = None \/ ~ IsStructured(call.arg.json[1])))
                 => result[n].value = _parse_vtt(stripped)

-----------------------------------------------------------------------------
(* Properties of the browser sessions (SpecBrowser)                        *)

\* the sessions that are not released: their driver runs
OpenSessions == {i \in 1..Len(procs) : procs[i].playwright = "started"}
\* the sessions released with a browser no browser.close() statement closed
UnclosedBrowsers ==
    {i \in 1..Len(procs) :
        procs[i].playwright = "stopped" /\ procs[i].browser = "open"}

-----------------------------------------------------------------------------
(* Properties of get_transcript (SpecTranscript)                           *)

\* C25: with caching enabled, a get_transcript call that finds a caption
\* payload in the cache for its video has no interaction with the network
\* and returns the text of that payload; it does so when the network is
\* unavailable, too.
C25_CachedCaptionWithoutNetwork ==
    \A n \in 1..Len(result) :
       (CacheFlagOn /\ truthy(result[n].entry))
       => /\ result[n].network = <<>>
          /\ result[n].value = transcript_of(payload_of(result[n].entry[1]))

\* the URLs of the tracks of a dict whose first format has one
UrlsOf(tracks) ==
    {tracks[i].formats[1].url[1] :
        i \in {n \in 1..Len(tracks) : /\ tracks[n].formats # <<>>
                                      /\ tracks[n].formats[1].url # None}}

\* the caption URLs the selection order allows for a video and requested
\* languages: those of the first requested language that has one, else
\* those of the manual tracks, else those of the automatic ones
Selectable(info, languages) ==
    LET urls == UrlsOf(info.subtitles) \cup UrlsOf(info.automatic_captions)
        requested == {i \in 1..Len(languages) :
                         \E url \in urls : url.lang = languages[i]}
        first == CHOOSE i \in requested : \A n \in requested : i <= n
    IN  IF requested # {} THEN {url \in urls : url.lang = languages[first]}
        ELSE IF UrlsOf(info.subtitles) # {} THEN UrlsOf(info.subtitles)
        ELSE UrlsOf(info.automatic_captions)

\* C26: the caption get_transcript selects is a track of the first requested
\* language that has one, else a manual track of any language, else an
\* automatic one; a track is selected whenever a track of any language has
\* a URL, also when a requested language has an empty format list or a
\* first format without URL.
C26_CaptionSelectionOrder ==
    \A n \in 1..Len(result) :
       ~ result[n].network[1].failed
       => LET urls == Selectable(call.info,
                                 IF result[n].languages = None THEN <<"en">>
                                 ELSE result[n].languages[1])
          IN  IF urls = {} THEN result[n].selected = None
              ELSE /\ result[n].selected # None
                   /\ result[n].selected[1] \in urls

\* C30: the caption cache is keyed by the video alone: a get_transcript call
\* that selects a caption URL while the cache holds the payload an earlier
\* call for the video stored (for whichever languages, and not cleared
\* since) returns the text of that stored payload.
C30_CaptionCacheKeyedByVideo ==
    \A n \in 1..Len(result) :
       (/\ CacheFlagOn
        /\ result[n].entry # None
        /\ result[n].selected # None)
       => result[n].value = transcript_of(payload_of(result[n].entry[1]))

-----------------------------------------------------------------------------
(* Properties of the polling (SpecPoll)                                    *)

\* C28: polling with the window W and no more than W between two calls
\* misses no article: once a fetch_articles call was made after an article
\* appeared on the page with its calendar date, some call made after it
\* appeared has returned the article.
C28_PollingCoversEveryArticle ==
    call.fn = "poll"
    => \A a \in 1..Len(log) :
          Len(result) > log[a].polls
          => \E n \in (log[a].polls + 1)..Len(result) :
                \E i \in 1..Len(result[n].articles) :
                   result[n].articles[i].id = log[a].link

-----------------------------------------------------------------------------
(* Properties of the network waits (FairWaits)                             *)

====
